---- MODULE Spec2Model ----
(***************************************************************************)
(* A model of parts of rsp2:                                               *)
(*                                                                         *)
(*  - the outer EV loop (TrialDir::do_main_ev_loop) and its state machine  *)
(*    EvLoopFsm (src/src/tasks/cmd/relaxation.rs), checked under Spec;     *)
(*  - the slope-based line search exact_ls::linesearch                     *)
(*    (src/src/minimize/src/exact_ls.rs), checked under SpecLs.            *)
(***************************************************************************)
EXTENDS Integers, Naturals, Sequences, FiniteSets, TLC

VARIABLES
    \* ---- settings of a run (never change after Init)
    config,          \* cfg::EvLoop {min_positive_iter, max_iter, fail}
    ev_chase,        \* cfg::EigenvectorChase: "OneByOne" or "Acgsd"
    \* ---- EvLoopFsm
    iteration,       \* EvLoopFsm::iteration
    all_ok_count,    \* EvLoopFsm::all_ok_count
    status,          \* what the last call of step returned ("None" before)
    nsteps,          \* number of calls of step so far
    all_chased,      \* every call of step so far had DidEvChasing(true)
    last_did,        \* the input of the last call of step ("None" before)
    \* ---- do_main_ev_loop
    pc,              \* position in the loop body, or how the function ended
    cur,             \* the local `iteration`, read at the top of the body
    structure,       \* the local `structure` (an abstract version number)
    pre_chase,       \* the structure handed to maybe_do_ev_chasing
    classifications, \* ev_analysis.ev_classifications of this iteration
    chased,          \* the bands handed to do_eigenvector_chase, in order
    did_chasing,     \* the DidEvChasing of this iteration:
                     \* "true", "false", or "None" before it is computed
    files,           \* the artifacts written so far, in order
    trail,           \* the steps of this iteration performed so far
    \* ---- exact_ls::linesearch
    ls_from,         \* the argument `from`
    ls_step,         \* the argument `initial_step`
    ls_evals,        \* what the caller's callback returned, by abscissa
    ls_calls,        \* the abscissae the caller's callback was called at
    ls_mirrored,     \* `compute` has been wrapped into the mirroring closure
    ls_center,       \* `center` captured by the mirroring closure
    ls_a,            \* `a` of linesearch and find_initial
    ls_b,            \* `b` of linesearch and find_initial
    ls_lo,           \* `lo` of bisect
    ls_hi,           \* `hi` of bisect
    ls_bprobes,      \* the bounds `b` has held, in order
    ls_pc,           \* position in linesearch
    ls_result,       \* what the closure handed to nest_err returned
    \* ---- exact_ls::golden
    gs_interval,     \* the argument `interval`
    gs_evals,        \* what the caller's callback returned, by abscissa
    gs_last,         \* the abscissa of the latest call of the callback
    gs_a,            \* `a` of `state`
    gs_b,            \* `b` of `state`
    gs_d,            \* `d` of `state`
    gs_pc,           \* position in golden
    gs_result,       \* what the closure handed to nest_err returned
    \* ---- log_stdio_and_wait
    pd_stdin,        \* the argument `stdin`: Some(text) of `len` chunks, or None
    pd_pc,           \* position in log_stdio_and_wait
    pd_result,       \* what log_stdio_and_wait returned
    pd_sent,         \* chunks of the text written to the child's stdin
    child_state,     \* `child`: "none" before spawn, "running", "exited"
    child_status,    \* the ExitStatus of the child
    child_starts,    \* number of children spawned
    child_written,   \* lines the child has written, by stream
    child_op,        \* the write the child is blocked in, or "idle"
    pipe_stdin,      \* chunks in the stdin pipe
    pipe,            \* the lines in the stdout and stderr pipes
    worker,          \* stdout_worker and stderr_worker: "none" before the
                     \* thread is spawned, "running", or what it returned
    joined,          \* the worker has been joined
    log,             \* the lines handed to ::stdout::log and ::stderr::log
    \* ---- group::generate_finite_group
    gg_mod,          \* which group the product g_fn is that of
    gg_generators,   \* the argument `generators`
    gg_seen,         \* `seen`
    gg_queue,        \* `queue`
    gg_out,          \* `out`
    gg_pc,           \* position in generate_finite_group
    \* ---- perm::of_spacegroup
    sg_ops,          \* the argument `ops`
    sg_from,         \* `from_fracs`
    sg_out,          \* `out` of try_compute_homomorphism
    sg_pc,           \* position in of_spacegroup
    \* ---- layer::assign_layers
    al_fracs,        \* `fracs`, the coordinate along the axis of each atom
    al_sep,          \* `frac_sep`
    al_normal,       \* the argument `normal`
    al_perp,         \* the other lattice vectors are perpendicular to the axis
    al_pc,           \* position in assign_layers
    al_result,       \* what assign_layers returned
    \* ---- perform_acoustic_search
    ac_eigenvalues,  \* the argument `eigenvalues`
    ac_acoustic,     \* whether the acousticness of a mode is at least 0.95
    ac_kinds,        \* `kinds`
    ac_i,            \* modes the loop over the negative modes has been through
    ac_pc,           \* position in perform_acoustic_search
    ac_result,       \* what perform_acoustic_search returned
    \* ---- cache_link
    cl_cross_fs,     \* whether the destination is on another filesystem
    cl_dest,         \* content of the destination file
    cl_pc,           \* position of each caller in cache_link, or its result
    \* ---- try_map_the_thing
    tm_me,           \* the array given (`me`)
    tm_out,          \* the values written to `out` so far
    tm_dropped,      \* the elements dropped, in the order of the drops
    tm_result,       \* "none" while the loop runs, then "Ok" or "Err"
    \* ---- LockfilePath, LockfileGuard
    lk_file,         \* the lock file: 0 or the holder that created it
    lk_pc,           \* what each holder has
    lk_last,         \* what the last try_lock or drop of each holder returned
    \* ---- brute_force_near_identity, of_rotation_impl
    ro_fn,           \* the function called
    ro_lattice,      \* `lattice`
    ro_from,         \* `from_fracs`
    ro_to,           \* `to_fracs`
    ro_tol,          \* `tol`
    ro_result        \* what the function returned

ev_vars == <<config, ev_chase, iteration, all_ok_count, status, nsteps,
             all_chased, last_did, pc, cur, structure, pre_chase,
             classifications, chased, did_chasing, files, trail>>

ls_vars == <<ls_from, ls_step, ls_evals, ls_calls, ls_mirrored, ls_center,
             ls_a, ls_b, ls_lo, ls_hi, ls_bprobes, ls_pc, ls_result>>

gs_vars == <<gs_interval, gs_evals, gs_last, gs_a, gs_b, gs_d, gs_pc, gs_result>>

pd_vars == <<pd_stdin, pd_pc, pd_result, pd_sent, child_state, child_status,
             child_starts, child_written, child_op, pipe_stdin, pipe, worker,
             joined, log>>

gg_vars == <<gg_mod, gg_generators, gg_seen, gg_queue, gg_out, gg_pc>>

sg_vars == <<sg_ops, sg_from, sg_out, sg_pc>>

al_vars == <<al_fracs, al_sep, al_normal, al_perp, al_pc, al_result>>

ac_vars == <<ac_eigenvalues, ac_acoustic, ac_kinds, ac_i, ac_pc, ac_result>>

cl_vars == <<cl_cross_fs, cl_dest, cl_pc>>

tm_vars == <<tm_me, tm_out, tm_dropped, tm_result>>

lk_vars == <<lk_file, lk_pc, lk_last>>

ro_vars == <<ro_fn, ro_lattice, ro_from, ro_to, ro_tol, ro_result>>

vars == <<ev_vars, ls_vars, gs_vars, pd_vars, gg_vars, sg_vars, al_vars, ac_vars, cl_vars, tm_vars, lk_vars, ro_vars>>


----------------------------------------------------------------------------
\* Bounds of the model.

\* largest ev-loop.max-iter explored (the field is a u32)
MaxIterBound == 3
\* largest ev-loop.min-positive-iter explored (the field is a u32)
MaxMinPositive == 3
\* number of eigenmodes of the analysed structure
NModes == 2
\* largest finite abscissa: an f64 beyond it is infinite
MaxAlpha == 8
\* largest finite slope the callback returns
MaxSlope == 1
\* calls of the callback after which a search is no longer followed
MaxCalls == 12

\* the finite values of a callback of golden are 0..MaxValue
MaxValue == 2

\* chunks of the longest stdin text
MaxText == 2
\* lines a child writes to one stream, at most
MaxLines == 2
\* lines (chunks) a pipe holds
PipeCap == 1

\* length of the longest list of generators
MaxGenerators == 2
\* elements listed after which the generation of a group is no longer followed
MaxOut == 6

\* atoms of the largest structure whose layers are assigned
MaxAtoms == 3
\* points of the grid of coordinates along one lattice vector
Cells == 5
\* largest separation, in points of that grid
MaxSep == 1

\* modes of the largest eigensystem searched for acoustic modes
MaxModes == 4

\* concurrent callers of cache_link, and holders of a lock file
MaxCallers == 3

\* length of the longest array mapped
MaxLen == 3

\* sites of the largest structure whose permutation is searched for
MaxSites == 3

\* the largest tolerance of that search, in halves of the unit
MaxTol == 2

----------------------------------------------------------------------------
\* EvLoopFsm

EvLoopConfigs ==
    [min_positive_iter : 0..MaxMinPositive, max_iter : 0..MaxIterBound,
     fail : BOOLEAN]

\* EvLoopFsm::new
NewFsm == [iteration |-> 1, all_ok_count |-> 0]

\* StepChased without `self.all_ok_count = 0`
StepChasedNoReset(cfg, it, ok) ==
    [iteration |-> it, all_ok_count |-> ok,
     status |-> IF it > cfg.max_iter
                THEN (IF cfg.fail THEN "ItsBadGuys" ELSE "Done")
                ELSE "KeepGoing"]

\* StepChased that ignores config.fail at the iteration bound
StepChasedNeverFails(cfg, it, ok) ==
    [iteration |-> it, all_ok_count |-> 0,
     status |-> IF it > cfg.max_iter THEN "Done" ELSE "KeepGoing"]

\* StepChased with `>=` for `>` in the comparison with max_iter
StepChasedOffByOne(cfg, it, ok) ==
    [iteration |-> it, all_ok_count |-> 0,
     status |-> IF it >= cfg.max_iter
                THEN (IF cfg.fail THEN "ItsBadGuys" ELSE "Done")
                ELSE "KeepGoing"]

\* StepChased that compares the iteration with max_iter + 1
StepChasedLate(cfg, it, ok) ==
    [iteration |-> it, all_ok_count |-> 0,
     status |-> IF it > cfg.max_iter + 1
                THEN (IF cfg.fail THEN "ItsBadGuys" ELSE "Done")
                ELSE "KeepGoing"]

\* the DidEvChasing(true) arm of EvLoopFsm::step, after `iteration += 1`
StepChased(cfg, it, ok) ==
    [iteration |-> it, all_ok_count |-> 0,
     status |-> IF it > cfg.max_iter
                THEN (IF cfg.fail THEN "ItsBadGuys" ELSE "Done")
                ELSE "KeepGoing"]

\* StepClean with `>` for `>=` in the comparison with min_positive_iter
StepCleanOffByOne(cfg, it, ok) ==
    [iteration |-> it, all_ok_count |-> ok + 1,
     status |-> IF ok + 1 > cfg.min_positive_iter
                THEN "Done" ELSE "KeepGoing"]

\* the DidEvChasing(false) arm of EvLoopFsm::step, after `iteration += 1`
StepClean(cfg, it, ok) ==
    [iteration |-> it, all_ok_count |-> ok + 1,
     status |-> IF ok + 1 >= cfg.min_positive_iter
                THEN "Done" ELSE "KeepGoing"]

\* EvLoopFsm::step
FsmStep(cfg, it, ok, did) ==
    IF did THEN StepChased(cfg, it + 1, ok) ELSE StepClean(cfg, it + 1, ok)

----------------------------------------------------------------------------
\* do_main_ev_loop

ModeKind == {"Translational", "Rotational", "Imaginary", "Vibrational"}

\* what the eigen-analysis can classify the modes as
Classifications == [1..NModes -> ModeKind]

RECURSIVE Digits(_)
Digits(n) == IF n < 10 THEN <<n>> ELSE Append(Digits(n \div 10), n % 10)

\* format!("{:02}", n)
Fmt02(n) == IF n < 10 THEN <<0, n>> ELSE Digits(n)

\* format!("structure-{:02}.{}.vasp", iteration, part)
StructureName(n, part) == [kind |-> "structure", nn |-> Fmt02(n), part |-> part]

\* format!("eigenvalues.{:02}", iteration)
EigenName(n) == [kind |-> "eigenvalues", nn |-> Fmt02(n), part |-> 0]

\* NextPc with the eigen-analysis moved before the first write_poscar
NextPcAnalysisFirst(p) ==
    CASE p = "head"      -> "relax"
      [] p = "relax"     -> "analysis"
      [] p = "analysis"  -> "write1"
      [] p = "write1"    -> "write_eig"
      [] p = "write_eig" -> "chase"
      [] p = "chase"     -> "write2"
      [] p = "write2"    -> "warn"
      [] p = "warn"      -> "step"
      [] OTHER           -> "head"

\* the statement that follows each statement of the loop body
NextPc(p) ==
    CASE p = "head"      -> "relax"
      [] p = "relax"     -> "write1"
      [] p = "write1"    -> "analysis"
      [] p = "analysis"  -> "write_eig"
      [] p = "write_eig" -> "chase"
      [] p = "chase"     -> "write2"
      [] p = "write2"    -> "warn"
      [] p = "warn"      -> "step"
      [] OTHER           -> "head"

\* bad_evs of maybe_do_ev_chasing: the bands classified Imaginary, in order
RECURSIVE BadEvsFrom(_, _)
BadEvsFrom(cls, i) ==
    IF i > Len(cls) THEN <<>>
    ELSE (IF cls[i] = "Imaginary" THEN <<i>> ELSE <<>>) \o BadEvsFrom(cls, i + 1)

\* bad_evs collected in reverse band order
RECURSIVE BadEvsReversedFrom(_, _)
BadEvsReversedFrom(cls, i) ==
    IF i > Len(cls) THEN <<>>
    ELSE BadEvsReversedFrom(cls, i + 1) \o (IF cls[i] = "Imaginary" THEN <<i>> ELSE <<>>)

BadEvsReversed(cls) == BadEvsReversedFrom(cls, 1)

BadEvs(cls) == BadEvsFrom(cls, 1)

EvInit ==
    /\ config \in EvLoopConfigs
    /\ ev_chase \in {"OneByOne", "Acgsd"}
    /\ iteration = NewFsm.iteration
    /\ all_ok_count = NewFsm.all_ok_count
    /\ status = "None"
    /\ nsteps = 0
    /\ all_chased = TRUE
    /\ last_did = "None"
    /\ pc = "head"
    /\ cur = 0
    /\ structure = 0
    /\ pre_chase = 0
    /\ classifications = <<>>
    /\ chased = <<>>
    /\ did_chasing = "None"
    /\ files = <<>>
    /\ trail = <<>>

\* top of the loop body: `let iteration = loop_state.iteration;`
LoopHead ==
    /\ pc = "head"
    /\ cur' = iteration
    /\ pc' = NextPc(pc)
    /\ trail' = <<>>
    /\ classifications' = <<>>
    /\ chased' = <<>>
    /\ did_chasing' = "None"
    /\ pre_chase' = structure
    /\ UNCHANGED <<config, ev_chase, iteration, all_ok_count, status, nsteps,
                   all_chased, last_did, structure, files>>
    /\ UNCHANGED <<ls_vars, gs_vars, pd_vars, gg_vars, sg_vars, al_vars, ac_vars, cl_vars, tm_vars, lk_vars, ro_vars>>

\* do_relax: the potential may fail to initialize (Err); a failure of acgsd
\* is unwrapped (panic)
DoRelax ==
    /\ pc = "relax"
    /\ \E outcome \in {"ok", "err", "panic"} :
          /\ pc' = IF outcome = "ok" THEN NextPc(pc) ELSE outcome
          /\ structure' = IF outcome = "ok" THEN structure + 1 ELSE structure
          /\ trail' = IF outcome = "ok" THEN Append(trail, "relax") ELSE trail
    /\ UNCHANGED <<config, ev_chase, iteration, all_ok_count, status, nsteps,
                   all_chased, last_did, cur, pre_chase, classifications,
                   chased, did_chasing, files>>
    /\ UNCHANGED <<ls_vars, gs_vars, pd_vars, gg_vars, sg_vars, al_vars, ac_vars, cl_vars, tm_vars, lk_vars, ro_vars>>

\* write_poscar("structure-NN.1.vasp")
WritePoscar1 ==
    /\ pc = "write1"
    /\ \E outcome \in {"ok", "err"} :
          /\ pc' = IF outcome = "ok" THEN NextPc(pc) ELSE outcome
          /\ files' = IF outcome = "ok"
                      THEN Append(files, StructureName(cur, 1)) ELSE files
          /\ trail' = IF outcome = "ok" THEN Append(trail, "write1") ELSE trail
    /\ UNCHANGED <<config, ev_chase, iteration, all_ok_count, status, nsteps,
                   all_chased, last_did, cur, structure, pre_chase,
                   classifications, chased, did_chasing>>
    /\ UNCHANGED <<ls_vars, gs_vars, pd_vars, gg_vars, sg_vars, al_vars, ac_vars, cl_vars, tm_vars, lk_vars, ro_vars>>

\* save_analysis_aux_info and do_post_relaxation_computations
PostRelaxation ==
    /\ pc = "analysis"
    /\ \/ /\ \E cls \in Classifications : classifications' = cls
          /\ pc' = NextPc(pc)
          /\ trail' = Append(trail, "analysis")
       \/ /\ pc' = "err"
          /\ UNCHANGED <<classifications, trail>>
    /\ UNCHANGED <<config, ev_chase, iteration, all_ok_count, status, nsteps,
                   all_chased, last_did, cur, structure, pre_chase, chased,
                   did_chasing, files>>
    /\ UNCHANGED <<ls_vars, gs_vars, pd_vars, gg_vars, sg_vars, al_vars, ac_vars, cl_vars, tm_vars, lk_vars, ro_vars>>

\* create_file("eigenvalues.NN") and the two write_eigen_info calls
WriteEigenvalues ==
    /\ pc = "write_eig"
    /\ \E outcome \in {"ok", "err"} :
          /\ pc' = IF outcome = "ok" THEN NextPc(pc) ELSE outcome
          /\ files' = IF outcome = "ok"
                      THEN Append(files, EigenName(cur)) ELSE files
          /\ trail' = IF outcome = "ok" THEN Append(trail, "write_eig") ELSE trail
    /\ UNCHANGED <<config, ev_chase, iteration, all_ok_count, status, nsteps,
                   all_chased, last_did, cur, structure, pre_chase,
                   classifications, chased, did_chasing>>
    /\ UNCHANGED <<ls_vars, gs_vars, pd_vars, gg_vars, sg_vars, al_vars, ac_vars, cl_vars, tm_vars, lk_vars, ro_vars>>

\* what do_eigenvector_chase can end with, given the configured method
ChaseOutcomes == IF ev_chase = "Acgsd" THEN {"ok", "err", "panic"} ELSE {"ok", "err"}

\* maybe_do_ev_chasing
MaybeDoEvChasing ==
    /\ pc = "chase"
    /\ pre_chase' = structure
    /\ LET bad_evs == BadEvs(classifications) IN
       IF Len(bad_evs) = 0
       THEN /\ did_chasing' = "false"
            /\ pc' = NextPc(pc)
            /\ trail' = Append(trail, "chase")
            /\ UNCHANGED <<structure, chased>>
       ELSE /\ chased' = bad_evs
            /\ \E outcome \in ChaseOutcomes :
                  /\ pc' = IF outcome = "ok" THEN NextPc(pc) ELSE outcome
                  /\ did_chasing' = IF outcome = "ok" THEN "true" ELSE did_chasing
                  /\ structure' = IF outcome = "ok"
                                  THEN structure + Len(bad_evs) ELSE structure
                  /\ trail' = IF outcome = "ok" THEN Append(trail, "chase") ELSE trail
    /\ UNCHANGED <<config, ev_chase, iteration, all_ok_count, status, nsteps,
                   all_chased, last_did, cur, classifications, files>>
    /\ UNCHANGED <<ls_vars, gs_vars, pd_vars, gg_vars, sg_vars, al_vars, ac_vars, cl_vars, tm_vars, lk_vars, ro_vars>>

\* write_poscar("structure-NN.2.vasp")
WritePoscar2 ==
    /\ pc = "write2"
    /\ \E outcome \in {"ok", "err"} :
          /\ pc' = IF outcome = "ok" THEN NextPc(pc) ELSE outcome
          /\ files' = IF outcome = "ok"
                      THEN Append(files, StructureName(cur, 2)) ELSE files
          /\ trail' = IF outcome = "ok" THEN Append(trail, "write2") ELSE trail
    /\ UNCHANGED <<config, ev_chase, iteration, all_ok_count, status, nsteps,
                   all_chased, last_did, cur, structure, pre_chase,
                   classifications, chased, did_chasing>>
    /\ UNCHANGED <<ls_vars, gs_vars, pd_vars, gg_vars, sg_vars, al_vars, ac_vars, cl_vars, tm_vars, lk_vars, ro_vars>>

\* warn_on_improvable_lattice_params
WarnLattice ==
    /\ pc = "warn"
    /\ \E outcome \in {"ok", "err"} :
          /\ pc' = IF outcome = "ok" THEN NextPc(pc) ELSE outcome
          /\ trail' = IF outcome = "ok" THEN Append(trail, "warn") ELSE trail
    /\ UNCHANGED <<config, ev_chase, iteration, all_ok_count, status, nsteps,
                   all_chased, last_did, cur, structure, pre_chase,
                   classifications, chased, did_chasing, files>>
    /\ UNCHANGED <<ls_vars, gs_vars, pd_vars, gg_vars, sg_vars, al_vars, ac_vars, cl_vars, tm_vars, lk_vars, ro_vars>>

\* `match loop_state.step(did_chasing)`: continue, return Ok, or bail!
FsmStepAndMatch ==
    /\ pc = "step"
    /\ LET r == FsmStep(config, iteration, all_ok_count, did_chasing = "true") IN
          /\ iteration' = r.iteration
          /\ all_ok_count' = r.all_ok_count
          /\ status' = r.status
          /\ pc' = CASE r.status = "KeepGoing" -> NextPc(pc)
                     [] r.status = "Done" -> "done"
                     [] OTHER -> "err"
    /\ nsteps' = nsteps + 1
    /\ all_chased' = (all_chased /\ did_chasing = "true")
    /\ last_did' = did_chasing
    /\ trail' = Append(trail, "step")
    /\ UNCHANGED <<config, ev_chase, cur, structure, pre_chase,
                   classifications, chased, did_chasing, files>>
    /\ UNCHANGED <<ls_vars, gs_vars, pd_vars, gg_vars, sg_vars, al_vars, ac_vars, cl_vars, tm_vars, lk_vars, ro_vars>>

EvNext ==
    \/ LoopHead
    \/ DoRelax
    \/ WritePoscar1
    \/ PostRelaxation
    \/ WriteEigenvalues
    \/ MaybeDoEvChasing
    \/ WritePoscar2
    \/ WarnLattice
    \/ FsmStepAndMatch

----------------------------------------------------------------------------
\* f64 arithmetic on the abscissae.  The finite values are the integers
\* -MaxAlpha..MaxAlpha (one binade, in units of its spacing); a result beyond
\* them overflows to an infinity.  (inf - inf does not arise: `from` and
\* `initial_step` are finite.)

PosInf == MaxAlpha + 1
NegInf == 0 - PosInf

\* f64::is_finite
IsFinite(x) == x # PosInf /\ x # NegInf

\* the f64 nearest to the real number x
Round(x) == IF x > MaxAlpha THEN PosInf ELSE IF x < 0 - MaxAlpha THEN NegInf ELSE x

\* x + y
FAdd(x, y) ==
    IF x = PosInf \/ y = PosInf THEN PosInf
    ELSE IF x = NegInf \/ y = NegInf THEN NegInf
    ELSE Round(x + y)

\* x - y
FSub(x, y) == FAdd(x, 0 - y)

\* 0.5 * s, for s the exact sum of two neighbours of the grid: the sum was
\* rounded to even before it is halved
Half(s) ==
    IF s % 2 = 0 THEN s \div 2
    ELSE LET f == (s - 1) \div 2 IN IF f % 2 = 0 THEN f ELSE f + 1

\* `0.5 * (lo.alpha + hi.alpha)` of bisect
Midpoint(lo, hi) == IF IsFinite(FAdd(lo, hi)) THEN Half(lo + hi) ELSE FAdd(lo, hi)

----------------------------------------------------------------------------
\* exact_ls::linesearch

\* what the caller's callback can return: Ok(Slope(s)) with s finite,
\* Ok(Slope(s)) with s not finite, or Err(e)
Outcomes ==
    [kind : {"slope"}, slope : (0 - MaxSlope)..MaxSlope]
        \cup {[kind |-> "nonfinite", slope |-> MaxSlope + 1],
              [kind |-> "err", slope |-> 0]}

\* the callback is a function of the abscissa: what it returns at x
CallbackAt(x) == IF x \in DOMAIN ls_evals THEN {ls_evals[x]} ELSE Outcomes

Extend(f, x, o) == [y \in DOMAIN f \cup {x} |-> IF y = x THEN o ELSE f[y]]

NoBound == [alpha |-> 0, slope |-> 0]

NoResult == [kind |-> "none", alpha |-> 0, slope |-> 0]

\* the condition ensured by check_mirroring_assumption
MirroringAssumption(x0) == FSub(FAdd(x0, x0), x0) = x0

\* the inner closure `compute` of linesearch, called at x with the callback
\* returning o
InnerCompute(x, o) ==
    CASE o.kind = "err" -> [kind |-> "callback_err", alpha |-> 0, slope |-> 0]
      [] o.kind = "nonfinite" ->
            [kind |-> "FunctionOutput", alpha |-> 0, slope |-> o.slope]
      [] OTHER -> [kind |-> "bound", alpha |-> x, slope |-> o.slope]

\* the abscissa the caller's callback is called at for `compute(alpha)`
CallbackAlpha(alpha) ==
    IF ls_mirrored THEN FSub(FAdd(ls_center, ls_center), alpha) ELSE alpha

\* the `.map(..)` of the mirroring closure
MirrorMap(alpha, r) ==
    IF r.kind = "bound" THEN [kind |-> "bound", alpha |-> alpha, slope |-> 0 - r.slope]
    ELSE r

\* `compute(alpha)` as find_initial and bisect see it, with the callback
\* returning o at CallbackAlpha(alpha)
Compute(alpha, o) ==
    IF ls_mirrored THEN MirrorMap(alpha, InnerCompute(CallbackAlpha(alpha), o))
    ELSE InnerCompute(alpha, o)

Bound(r) == [alpha |-> r.alpha, slope |-> r.slope]

\* `b.alpha + (b.alpha - a.alpha)` of find_initial, written b + b
NewAlphaTwiceB(a, b) == FAdd(b, b)

\* `b.alpha + (b.alpha - a.alpha)` of find_initial
NewAlpha(a, b) == FAdd(b, FSub(b, a))

\* `bound.slope >= 0.0` of bisect, written `>`
ReplacesHiStrict(slope) == slope > 0

\* `bound.slope >= 0.0` of bisect, with the two arms swapped
ReplacesHiInverted(slope) == slope <= 0

\* `bound.slope >= 0.0` of bisect: the midpoint becomes hi
ReplacesHi(slope) == slope >= 0

LsInputs == [from : {-5, 0, 3}, step : {-1, 0, 1, 2}]

LsInit ==
    /\ \E in \in LsInputs : ls_from = in.from /\ ls_step = in.step
    /\ ls_evals = <<>>
    /\ ls_calls = <<>>
    /\ ls_mirrored = FALSE
    /\ ls_center = 0
    /\ ls_a = NoBound
    /\ ls_b = NoBound
    /\ ls_lo = NoBound
    /\ ls_hi = NoBound
    /\ ls_bprobes = <<>>
    /\ ls_pc = "start"
    /\ ls_result = NoResult

\* linesearch returns r (a bound, a callback error or an error of its own)
\* or panics
LsReturn(r) ==
    /\ ls_result' = r
    /\ ls_pc' = "returned"

\* `let mut a = compute(from)?;` and the mirroring when a.slope > 0.0
LsStart ==
    /\ ls_pc = "start"
    /\ Len(ls_calls) < MaxCalls
    /\ \E o \in CallbackAt(ls_from) :
          /\ ls_evals' = Extend(ls_evals, ls_from, o)
          /\ ls_calls' = Append(ls_calls, ls_from)
          /\ LET r == InnerCompute(ls_from, o) IN
             IF r.kind # "bound"
             THEN LsReturn(r) /\ UNCHANGED <<ls_a, ls_mirrored, ls_center>>
             ELSE IF r.slope > 0
             THEN IF MirroringAssumption(r.alpha)
                  THEN /\ ls_mirrored' = TRUE
                       /\ ls_center' = r.alpha
                       /\ ls_a' = [alpha |-> r.alpha, slope |-> 0 - r.slope]
                       /\ ls_pc' = "probe"
                       /\ UNCHANGED ls_result
                  ELSE /\ LsReturn([kind |-> "BadBound", alpha |-> r.alpha, slope |-> 0])
                       /\ UNCHANGED <<ls_a, ls_mirrored, ls_center>>
             ELSE /\ ls_a' = Bound(r)
                  /\ ls_pc' = "probe"
                  /\ UNCHANGED <<ls_result, ls_mirrored, ls_center>>
    /\ UNCHANGED <<ls_from, ls_step, ls_b, ls_lo, ls_hi, ls_bprobes>>
    /\ UNCHANGED <<ev_vars, gs_vars, pd_vars, gg_vars, sg_vars, al_vars, ac_vars, cl_vars, tm_vars, lk_vars, ro_vars>>

\* `let b = compute(from + initial_step)?;` and the entry of find_initial
LsProbe ==
    /\ ls_pc = "probe"
    /\ Len(ls_calls) < MaxCalls
    /\ LET alpha == FAdd(ls_from, ls_step)
           x == CallbackAlpha(alpha) IN
       \E o \in CallbackAt(x) :
          /\ ls_evals' = Extend(ls_evals, x, o)
          /\ ls_calls' = Append(ls_calls, x)
          /\ LET r == Compute(alpha, o) IN
             IF r.kind # "bound"
             THEN LsReturn(r) /\ UNCHANGED <<ls_b, ls_bprobes>>
             ELSE IF ~(ls_a.slope <= 0)
             THEN LsReturn([kind |-> "panic", alpha |-> 0, slope |-> 0])
                    /\ UNCHANGED <<ls_b, ls_bprobes>>
             ELSE /\ ls_b' = Bound(r)
                  /\ ls_bprobes' = Append(ls_bprobes, Bound(r))
                  /\ ls_pc' = "find_initial"
                  /\ UNCHANGED ls_result
    /\ UNCHANGED <<ls_from, ls_step, ls_mirrored, ls_center, ls_a, ls_lo, ls_hi>>
    /\ UNCHANGED <<ev_vars, gs_vars, pd_vars, gg_vars, sg_vars, al_vars, ac_vars, cl_vars, tm_vars, lk_vars, ro_vars>>

\* one turn of `while b.slope < 0.0` in find_initial
LsWiden ==
    /\ ls_pc = "find_initial"
    /\ ls_b.slope < 0
    /\ LET new_alpha == NewAlpha(ls_a.alpha, ls_b.alpha) IN
       IF ~IsFinite(new_alpha)
       THEN /\ LsReturn([kind |-> "NoMinimum", alpha |-> 0, slope |-> 0])
            /\ UNCHANGED <<ls_evals, ls_calls, ls_b, ls_bprobes>>
       ELSE /\ Len(ls_calls) < MaxCalls
            /\ \E o \in CallbackAt(CallbackAlpha(new_alpha)) :
                  /\ ls_evals' = Extend(ls_evals, CallbackAlpha(new_alpha), o)
                  /\ ls_calls' = Append(ls_calls, CallbackAlpha(new_alpha))
                  /\ LET r == Compute(new_alpha, o) IN
                     IF r.kind # "bound"
                     THEN LsReturn(r) /\ UNCHANGED <<ls_b, ls_bprobes>>
                     ELSE /\ ls_b' = Bound(r)
                          /\ ls_bprobes' = Append(ls_bprobes, Bound(r))
                          /\ UNCHANGED <<ls_pc, ls_result>>
    /\ UNCHANGED <<ls_from, ls_step, ls_mirrored, ls_center, ls_a, ls_lo, ls_hi>>
    /\ UNCHANGED <<ev_vars, gs_vars, pd_vars, gg_vars, sg_vars, al_vars, ac_vars, cl_vars, tm_vars, lk_vars, ro_vars>>

\* find_initial returns (a, b); bisect starts with `assert!(lo.alpha <= hi.alpha)`
LsEnterBisect ==
    /\ ls_pc = "find_initial"
    /\ ~(ls_b.slope < 0)
    /\ IF ls_a.alpha <= ls_b.alpha
       THEN /\ ls_lo' = ls_a
            /\ ls_hi' = ls_b
            /\ ls_pc' = "bisect"
            /\ UNCHANGED ls_result
       ELSE /\ LsReturn([kind |-> "panic", alpha |-> 0, slope |-> 0])
            /\ UNCHANGED <<ls_lo, ls_hi>>
    /\ UNCHANGED <<ls_from, ls_step, ls_evals, ls_calls, ls_mirrored, ls_center,
                   ls_a, ls_b, ls_bprobes>>
    /\ UNCHANGED <<ev_vars, gs_vars, pd_vars, gg_vars, sg_vars, al_vars, ac_vars, cl_vars, tm_vars, lk_vars, ro_vars>>

\* one turn of the loop of bisect
LsBisect ==
    /\ ls_pc = "bisect"
    /\ IF ~(ls_lo.slope <= 0 /\ ls_hi.slope >= 0)
       THEN /\ LsReturn([kind |-> "panic", alpha |-> 0, slope |-> 0])
            /\ UNCHANGED <<ls_evals, ls_calls, ls_lo, ls_hi>>
       ELSE LET alpha == Midpoint(ls_lo.alpha, ls_hi.alpha) IN
            IF ~(ls_lo.alpha < alpha /\ alpha < ls_hi.alpha)
            THEN /\ LsReturn([kind |-> "bound", alpha |-> ls_lo.alpha,
                              slope |-> ls_lo.slope])
                 /\ UNCHANGED <<ls_evals, ls_calls, ls_lo, ls_hi>>
            ELSE /\ Len(ls_calls) < MaxCalls
                 /\ \E o \in CallbackAt(CallbackAlpha(alpha)) :
                       /\ ls_evals' = Extend(ls_evals, CallbackAlpha(alpha), o)
                       /\ ls_calls' = Append(ls_calls, CallbackAlpha(alpha))
                       /\ LET r == Compute(alpha, o) IN
                          IF r.kind # "bound"
                          THEN LsReturn(r) /\ UNCHANGED <<ls_lo, ls_hi>>
                          ELSE /\ IF ReplacesHi(r.slope)
                                  THEN ls_hi' = Bound(r) /\ UNCHANGED ls_lo
                                  ELSE ls_lo' = Bound(r) /\ UNCHANGED ls_hi
                               /\ UNCHANGED <<ls_pc, ls_result>>
    /\ UNCHANGED <<ls_from, ls_step, ls_mirrored, ls_center, ls_a, ls_b,
                   ls_bprobes>>
    /\ UNCHANGED <<ev_vars, gs_vars, pd_vars, gg_vars, sg_vars, al_vars, ac_vars, cl_vars, tm_vars, lk_vars, ro_vars>>

LsNext ==
    \/ LsStart
    \/ LsProbe
    \/ LsWiden
    \/ LsEnterBisect
    \/ LsBisect

----------------------------------------------------------------------------
\* exact_ls::golden

\* `(d - a) / (1.0 + phi)` for the difference x: 1/(1 + phi) = 0.38196..,
\* and the quotient is rounded to the nearest point of the grid
DivOnePlusPhi(x) == IF IsFinite(x) THEN (382 * x + 500) \div 1000 ELSE x

\* the closure get_mid_xs
GetMidXs(a, d) ==
    LET dist == DivOnePlusPhi(FSub(d, a)) IN <<FAdd(a, dist), FSub(d, dist)>>

\* what the caller's callback can return: Ok(Value(v)) with v finite,
\* Ok(Value(v)) with v not finite, or Err(e)
GsOutcomes ==
    [kind : {"value"}, value : 0..MaxValue]
        \cup {[kind |-> "nonfinite", value |-> MaxValue + 1],
              [kind |-> "err", value |-> 0]}

\* the callback is a function of the abscissa: what it returns at x
GsCallbackAt(x) == IF x \in DOMAIN gs_evals THEN {gs_evals[x]} ELSE GsOutcomes

NoValueBound == [alpha |-> 0, value |-> 0]

GsNoResult == [kind |-> "none", alpha |-> 0, value |-> 0]

\* the inner closure `compute` of golden, called at x with the callback
\* returning o
GsCompute(x, o) ==
    CASE o.kind = "err" -> [kind |-> "callback_err", alpha |-> 0, value |-> 0]
      [] o.kind = "nonfinite" ->
            [kind |-> "FunctionOutput", alpha |-> 0, value |-> o.value]
      [] OTHER -> [kind |-> "bound", alpha |-> x, value |-> o.value]

ValueBound(r) == [alpha |-> r.alpha, value |-> r.value]

Min(x, y) == IF x <= y THEN x ELSE y

\* `b.value > a.value.min(d.value)`: the loop of golden breaks
GsBreak(a, b, d) == b.value > Min(a.value, d.value)

GsIntervals == {<<0, 8>>, <<8, 0>>, <<-4, 4>>, <<-1, 2>>}

GsInit ==
    /\ gs_interval \in GsIntervals
    /\ gs_evals = <<>>
    /\ gs_last = 0
    /\ gs_a = NoValueBound
    /\ gs_b = NoValueBound
    /\ gs_d = NoValueBound
    /\ gs_pc = "a"
    /\ gs_result = GsNoResult

\* the closure of golden returns r
GsReturn(r) ==
    /\ gs_result' = r
    /\ gs_pc' = "returned"

\* the callback is called at x and returns o
GsCall(x, o) ==
    /\ gs_evals' = Extend(gs_evals, x, o)
    /\ gs_last' = x

\* `let a = compute(interval.0)?;`
GsEndpointA ==
    /\ gs_pc = "a"
    /\ \E o \in GsCallbackAt(gs_interval[1]) :
          /\ GsCall(gs_interval[1], o)
          /\ LET r == GsCompute(gs_interval[1], o) IN
             IF r.kind # "bound"
             THEN GsReturn(r) /\ UNCHANGED gs_a
             ELSE gs_a' = ValueBound(r) /\ gs_pc' = "d" /\ UNCHANGED gs_result
    /\ UNCHANGED <<gs_interval, gs_b, gs_d>>
    /\ UNCHANGED <<ev_vars, ls_vars, pd_vars, gg_vars, sg_vars, al_vars, ac_vars, cl_vars, tm_vars, lk_vars, ro_vars>>

\* `let d = compute(interval.1)?;`
GsEndpointD ==
    /\ gs_pc = "d"
    /\ \E o \in GsCallbackAt(gs_interval[2]) :
          /\ GsCall(gs_interval[2], o)
          /\ LET r == GsCompute(gs_interval[2], o) IN
             IF r.kind # "bound"
             THEN GsReturn(r) /\ UNCHANGED gs_d
             ELSE gs_d' = ValueBound(r) /\ gs_pc' = "b" /\ UNCHANGED gs_result
    /\ UNCHANGED <<gs_interval, gs_a, gs_b>>
    /\ UNCHANGED <<ev_vars, ls_vars, pd_vars, gg_vars, sg_vars, al_vars, ac_vars, cl_vars, tm_vars, lk_vars, ro_vars>>

\* `let b = compute(get_mid_xs(a.alpha, d.alpha).0)?;`
GsInnerB ==
    /\ gs_pc = "b"
    /\ LET x == GetMidXs(gs_a.alpha, gs_d.alpha)[1] IN
       \E o \in GsCallbackAt(x) :
          /\ GsCall(x, o)
          /\ LET r == GsCompute(x, o) IN
             IF r.kind # "bound"
             THEN GsReturn(r) /\ UNCHANGED gs_b
             ELSE gs_b' = ValueBound(r) /\ gs_pc' = "loop" /\ UNCHANGED gs_result
    /\ UNCHANGED <<gs_interval, gs_a, gs_d>>
    /\ UNCHANGED <<ev_vars, ls_vars, pd_vars, gg_vars, sg_vars, al_vars, ac_vars, cl_vars, tm_vars, lk_vars, ro_vars>>

\* the `break` of the loop and `Ok(b.alpha)`
GsStop ==
    /\ gs_pc = "loop"
    /\ GsBreak(gs_a, gs_b, gs_d)
    /\ GsReturn([kind |-> "alpha", alpha |-> gs_b.alpha, value |-> 0])
    /\ UNCHANGED <<gs_interval, gs_evals, gs_last, gs_a, gs_b, gs_d>>
    /\ UNCHANGED <<ev_vars, ls_vars, pd_vars, gg_vars, sg_vars, al_vars, ac_vars, cl_vars, tm_vars, lk_vars, ro_vars>>

\* one turn of the loop that does not break
GsTurn ==
    /\ gs_pc = "loop"
    /\ ~GsBreak(gs_a, gs_b, gs_d)
    /\ LET mid == GetMidXs(gs_a.alpha, gs_d.alpha)
           b == [alpha |-> mid[1], value |-> gs_b.value] IN
       \E o \in GsCallbackAt(mid[2]) :
          /\ GsCall(mid[2], o)
          /\ LET r == GsCompute(mid[2], o) IN
             IF r.kind # "bound"
             THEN GsReturn(r) /\ UNCHANGED <<gs_a, gs_b, gs_d>>
             ELSE /\ IF b.value < r.value
                     THEN gs_a' = ValueBound(r) /\ gs_b' = b /\ gs_d' = gs_a
                     ELSE gs_a' = b /\ gs_b' = ValueBound(r) /\ gs_d' = gs_d
                  /\ UNCHANGED <<gs_pc, gs_result>>
    /\ UNCHANGED gs_interval
    /\ UNCHANGED <<ev_vars, ls_vars, pd_vars, gg_vars, sg_vars, al_vars, ac_vars, cl_vars, tm_vars, lk_vars, ro_vars>>

GsNext ==
    \/ GsEndpointA
    \/ GsEndpointD
    \/ GsInnerB
    \/ GsStop
    \/ GsTurn

\* no golden section search is running
GsIdle ==
    /\ gs_interval = <<0, 0>>
    /\ gs_evals = <<>>
    /\ gs_last = 0
    /\ gs_a = NoValueBound
    /\ gs_b = NoValueBound
    /\ gs_d = NoValueBound
    /\ gs_pc = "idle"
    /\ gs_result = GsNoResult

\* nest_err that hands a callback error back as its own error
NestErrFlat(r) ==
    CASE r.kind \in {"bound", "alpha"} -> [outer |-> "Ok", inner |-> "Ok", value |-> r]
      [] OTHER -> [outer |-> "Err", inner |-> "None", value |-> r]

\* nest_err: Ok(x) becomes Ok(Ok(x)), Err(Ok(e)) becomes Ok(Err(e)) and
\* Err(Err(e)) becomes Err(e)
NestErr(r) ==
    CASE r.kind \in {"bound", "alpha"} -> [outer |-> "Ok", inner |-> "Ok", value |-> r]
      [] r.kind = "callback_err" -> [outer |-> "Ok", inner |-> "Err", value |-> r]
      [] OTHER -> [outer |-> "Err", inner |-> "None", value |-> r]

----------------------------------------------------------------------------
\* log_stdio_and_wait (src/src/tasks/phonopy/cmd.rs; the copy in
\* src/src/phonopy-io/cmd.rs is the case of no stdin text).  The text is
\* written in chunks of the size the stdin pipe accepts at once; the lines of
\* a stream are numbered in the order the child writes them.

Streams == {"stdout", "stderr"}

PdOk == [kind |-> "Ok", detail |-> "none"]

\* an error converted from std::io::Error by `?`
PdIo(at) == [kind |-> "Io", detail |-> at]

\* ErrorKind::PhonopyFailed(status)
PhonopyFailed(st) == [kind |-> "PhonopyFailed", detail |-> st]

PdInputs == {[some |-> FALSE, len |-> 0]} \cup [some : {TRUE}, len : 1..MaxText]

PdInit ==
    /\ pd_stdin \in PdInputs
    /\ pd_pc = "spawn"
    /\ pd_result = [kind |-> "none", detail |-> "none"]
    /\ pd_sent = 0
    /\ child_state = "none"
    /\ child_status = "none"
    /\ child_starts = 0
    /\ child_written = [s \in Streams |-> 0]
    /\ child_op = "idle"
    /\ pipe_stdin = 0
    /\ pipe = [s \in Streams |-> <<>>]
    /\ worker = [s \in Streams |-> "none"]
    /\ joined = [s \in Streams |-> FALSE]
    /\ log = [s \in Streams |-> <<>>]

\* log_stdio_and_wait returns r
PdReturn(r) ==
    /\ pd_result' = r
    /\ pd_pc' = "returned"

\* `cmd.stdout(..).stderr(..).spawn()?`
PdSpawn ==
    /\ pd_pc = "spawn"
    /\ \/ /\ child_state' = "running"
          /\ child_starts' = child_starts + 1
          /\ pd_pc' = IF pd_stdin.some THEN "stdin" ELSE "stdout_worker"
          /\ UNCHANGED pd_result
       \/ /\ PdReturn(PdIo("spawn"))
          /\ UNCHANGED <<child_state, child_starts>>
    /\ UNCHANGED <<pd_stdin, pd_sent, child_status, child_written, child_op,
                   pipe_stdin, pipe, worker, joined, log>>
    /\ UNCHANGED <<ev_vars, ls_vars, gs_vars, gg_vars, sg_vars, al_vars, ac_vars, cl_vars, tm_vars, lk_vars, ro_vars>>

\* `child.stdin.take().unwrap().write_all(text.as_bytes())?`, one chunk of
\* it: the write fails when the child has exited, and waits while the pipe
\* is full; the pipe is closed after the last chunk
PdWriteStdin ==
    /\ pd_pc = "stdin"
    /\ \/ /\ child_state = "exited"
          /\ PdReturn(PdIo("stdin"))
          /\ UNCHANGED <<pd_sent, pipe_stdin>>
       \/ /\ child_state = "running"
          /\ pipe_stdin < PipeCap
          /\ pipe_stdin' = pipe_stdin + 1
          /\ pd_sent' = pd_sent + 1
          /\ pd_pc' = IF pd_sent + 1 = pd_stdin.len THEN "stdout_worker" ELSE "stdin"
          /\ UNCHANGED pd_result
    /\ UNCHANGED <<pd_stdin, child_state, child_status, child_starts,
                   child_written, child_op, pipe, worker, joined, log>>
    /\ UNCHANGED <<ev_vars, ls_vars, gs_vars, gg_vars, sg_vars, al_vars, ac_vars, cl_vars, tm_vars, lk_vars, ro_vars>>

\* `::std::thread::spawn(..)` of stdout_worker, then of stderr_worker
PdSpawnWorker ==
    /\ pd_pc \in {"stdout_worker", "stderr_worker"}
    /\ LET s == IF pd_pc = "stdout_worker" THEN "stdout" ELSE "stderr" IN
       worker' = [worker EXCEPT ![s] = "running"]
    /\ pd_pc' = IF pd_pc = "stdout_worker" THEN "stderr_worker" ELSE "wait"
    /\ UNCHANGED <<pd_stdin, pd_result, pd_sent, child_state, child_status,
                   child_starts, child_written, child_op, pipe_stdin, pipe,
                   joined, log>>
    /\ UNCHANGED <<ev_vars, ls_vars, gs_vars, gg_vars, sg_vars, al_vars, ac_vars, cl_vars, tm_vars, lk_vars, ro_vars>>

\* check_status
CheckStatus(st) == IF st = "success" THEN PdOk ELSE PhonopyFailed(st)

\* `check_status(child.wait()?)?`
PdWait ==
    /\ pd_pc = "wait"
    /\ \/ /\ child_state = "exited"
          /\ IF CheckStatus(child_status) = PdOk
             THEN pd_pc' = "join_stdout" /\ UNCHANGED pd_result
             ELSE PdReturn(CheckStatus(child_status))
       \/ PdReturn(PdIo("wait"))
    /\ UNCHANGED <<pd_stdin, pd_sent, child_state, child_status, child_starts,
                   child_written, child_op, pipe_stdin, pipe, worker, joined, log>>
    /\ UNCHANGED <<ev_vars, ls_vars, gs_vars, gg_vars, sg_vars, al_vars, ac_vars, cl_vars, tm_vars, lk_vars, ro_vars>>

\* `let _ = stdout_worker.join();` then `let _ = stderr_worker.join();`:
\* what the worker returned is discarded
PdJoin ==
    /\ pd_pc \in {"join_stdout", "join_stderr"}
    /\ LET s == IF pd_pc = "join_stdout" THEN "stdout" ELSE "stderr" IN
       /\ worker[s] \in {"ok", "err"}
       /\ joined' = [joined EXCEPT ![s] = TRUE]
    /\ IF pd_pc = "join_stdout"
       THEN pd_pc' = "join_stderr" /\ UNCHANGED pd_result
       ELSE PdReturn(PdOk)
    /\ UNCHANGED <<pd_stdin, pd_sent, child_state, child_status, child_starts,
                   child_written, child_op, pipe_stdin, pipe, worker, log>>
    /\ UNCHANGED <<ev_vars, ls_vars, gs_vars, gg_vars, sg_vars, al_vars, ac_vars, cl_vars, tm_vars, lk_vars, ro_vars>>

\* the child reads a chunk of its stdin
ChildReadStdin ==
    /\ child_state = "running"
    /\ child_op = "idle"
    /\ pipe_stdin > 0
    /\ pipe_stdin' = pipe_stdin - 1
    /\ UNCHANGED <<pd_stdin, pd_pc, pd_result, pd_sent, child_state,
                   child_status, child_starts, child_written, child_op, pipe,
                   worker,
                   joined, log>>
    /\ UNCHANGED <<ev_vars, ls_vars, gs_vars, gg_vars, sg_vars, al_vars, ac_vars, cl_vars, tm_vars, lk_vars, ro_vars>>

\* the child writes its next line to a stream: the write completes when the
\* pipe has room, waits while the pipe is full, and is given up when the
\* reading end has been closed; a child waiting in a write does nothing else
ChildWrite ==
    /\ child_state = "running"
    /\ \E s \in Streams :
          /\ child_op \in {"idle", s}
          /\ child_written[s] < MaxLines
          /\ IF worker[s] \in {"ok", "err"}
             THEN /\ child_op = s
                  /\ child_op' = "idle"
                  /\ UNCHANGED <<child_written, pipe>>
             ELSE IF Len(pipe[s]) < PipeCap
             THEN /\ child_written' = [child_written EXCEPT ![s] = @ + 1]
                  /\ pipe' = [pipe EXCEPT ![s] = Append(@, child_written[s] + 1)]
                  /\ child_op' = "idle"
             ELSE /\ child_op = "idle"
                  /\ child_op' = s
                  /\ UNCHANGED <<child_written, pipe>>
    /\ UNCHANGED <<pd_stdin, pd_pc, pd_result, pd_sent, child_state,
                   child_status, child_starts, pipe_stdin, worker, joined, log>>
    /\ UNCHANGED <<ev_vars, ls_vars, gs_vars, gg_vars, sg_vars, al_vars, ac_vars, cl_vars, tm_vars, lk_vars, ro_vars>>

\* the child exits, which closes its ends of the pipes
ChildExit ==
    /\ child_state = "running"
    /\ child_op = "idle"
    /\ child_state' = "exited"
    /\ child_status' \in {"success", "failure"}
    /\ pipe_stdin' = 0
    /\ UNCHANGED <<pd_stdin, pd_pc, pd_result, pd_sent, child_starts,
                   child_written, child_op, pipe, worker, joined, log>>
    /\ UNCHANGED <<ev_vars, ls_vars, gs_vars, gg_vars, sg_vars, al_vars, ac_vars, cl_vars, tm_vars, lk_vars, ro_vars>>

\* one turn of `for line in f.lines() { log(&(line?[..])); }`: the next line
\* is logged, or reading it fails and the worker returns the error, or the
\* stream is at its end and the worker returns Ok
WorkerStep ==
    \E s \in Streams :
        /\ worker[s] = "running"
        /\ \/ /\ pipe[s] # <<>>
              /\ pipe' = [pipe EXCEPT ![s] = Tail(@)]
              /\ \/ /\ log' = [log EXCEPT ![s] = Append(@, Head(pipe[s]))]
                    /\ UNCHANGED worker
                 \/ /\ worker' = [worker EXCEPT ![s] = "err"]
                    /\ UNCHANGED log
           \/ /\ pipe[s] = <<>>
              /\ child_state = "exited"
              /\ worker' = [worker EXCEPT ![s] = "ok"]
              /\ UNCHANGED <<pipe, log>>
        /\ UNCHANGED <<pd_stdin, pd_pc, pd_result, pd_sent, child_state,
                       child_status, child_starts, child_written, child_op,
                       pipe_stdin,
                       joined>>
        /\ UNCHANGED <<ev_vars, ls_vars, gs_vars, gg_vars, sg_vars, al_vars, ac_vars, cl_vars, tm_vars, lk_vars, ro_vars>>

PdNext ==
    \/ PdSpawn
    \/ PdWriteStdin
    \/ PdSpawnWorker
    \/ PdWait
    \/ PdJoin
    \/ ChildReadStdin
    \/ ChildWrite
    \/ ChildExit
    \/ WorkerStep

\* no child process is being run
PdIdle ==
    /\ pd_stdin = [some |-> FALSE, len |-> 0]
    /\ pd_pc = "idle"
    /\ pd_result = [kind |-> "none", detail |-> "none"]
    /\ pd_sent = 0
    /\ child_state = "none"
    /\ child_status = "none"
    /\ child_starts = 0
    /\ child_written = [s \in Streams |-> 0]
    /\ child_op = "idle"
    /\ pipe_stdin = 0
    /\ pipe = [s \in Streams |-> <<>>]
    /\ worker = [s \in Streams |-> "none"]
    /\ joined = [s \in Streams |-> FALSE]
    /\ log = [s \in Streams |-> <<>>]

----------------------------------------------------------------------------
\* group::generate_finite_group.  The elements are integers and the product
\* g_fn is addition, modulo gg_mod when that is positive (a cyclic group) and
\* exact when it is 0 (the powers of an operation of infinite order).

\* mutation of GFn: the product is its left factor
GFnLeft(g, h) == g

GFn(g, h) == IF gg_mod > 0 THEN (g + h) % gg_mod ELSE g + h

\* the elements a generator can be
GgElements == IF gg_mod > 0 THEN 0..(gg_mod - 1) ELSE 0..2

GgInit ==
    /\ gg_mod \in {0, 2, 3, 4}
    /\ gg_generators \in UNION {[1..n -> GgElements] : n \in 0..MaxGenerators}
    /\ gg_seen = {}
    /\ gg_queue = <<>>
    /\ gg_out = <<>>
    /\ gg_pc = "start"

\* the assert on the generators and the initial queue
GgStart ==
    /\ gg_pc = "start"
    /\ IF Len(gg_generators) > 0
       THEN gg_queue' = gg_generators /\ gg_pc' = "loop"
       ELSE gg_pc' = "panic" /\ UNCHANGED gg_queue
    /\ UNCHANGED <<gg_mod, gg_generators, gg_seen, gg_out>>
    /\ UNCHANGED <<ev_vars, ls_vars, gs_vars, pd_vars, sg_vars, al_vars, ac_vars, cl_vars, tm_vars, lk_vars, ro_vars>>

\* one turn of `while let Some(g) = queue.pop_front()`
GgTurn ==
    /\ gg_pc = "loop"
    /\ gg_queue # <<>>
    /\ LET g == Head(gg_queue) IN
       IF g \notin gg_seen
       THEN /\ Len(gg_out) < MaxOut
            /\ gg_seen' = gg_seen \cup {g}
            /\ gg_queue' = Tail(gg_queue) \o
                  [i \in 1..Len(gg_generators) |-> GFn(g, gg_generators[i])]
            /\ gg_out' = Append(gg_out, g)
       ELSE /\ gg_queue' = Tail(gg_queue)
            /\ UNCHANGED <<gg_seen, gg_out>>
    /\ UNCHANGED <<gg_mod, gg_generators, gg_pc>>
    /\ UNCHANGED <<ev_vars, ls_vars, gs_vars, pd_vars, sg_vars, al_vars, ac_vars, cl_vars, tm_vars, lk_vars, ro_vars>>

\* the queue is empty: `out` is returned
GgReturn ==
    /\ gg_pc = "loop"
    /\ gg_queue = <<>>
    /\ gg_pc' = "returned"
    /\ UNCHANGED <<gg_mod, gg_generators, gg_seen, gg_queue, gg_out>>
    /\ UNCHANGED <<ev_vars, ls_vars, gs_vars, pd_vars, sg_vars, al_vars, ac_vars, cl_vars, tm_vars, lk_vars, ro_vars>>

GgNext ==
    \/ GgStart
    \/ GgTurn
    \/ GgReturn

\* no group is being generated
GgIdle ==
    /\ gg_mod = 0
    /\ gg_generators = <<>>
    /\ gg_seen = {}
    /\ gg_queue = <<>>
    /\ gg_out = <<>>
    /\ gg_pc = "idle"

----------------------------------------------------------------------------
\* perm::of_spacegroup with group::GroupTree.  A structure has three sites;
\* a position is one of 1..3 (a point modulo the lattice), sg_from[i] is the
\* position of atom i, and an operation g of the space group takes the
\* position x to g[x].  A permutation is the sequence of its images.

Positions == {1, 2, 3}

\* the bijections of the positions: the operations, and the arrangements
Bijections == {g \in [Positions -> Positions] : \A x, y \in Positions : g[x] = g[y] => x = y}

\* `second * first` of FracOp: first is applied first
Mul(second, first) == [x \in Positions |-> second[first[x]]]

\* Permute::permuted_by for a sequence x: element i of the result is x[p[i]]
PermutedBy(x, p) == [i \in DOMAIN p |-> x[p[i]]]

\* FracOp::transform_prim: the operation applied to every position
TransformPrim(op, fracs) == [i \in DOMAIN fracs |-> op[fracs[i]]]

\* of_rotation_impl: the permutation with to[i] = from[perm[i]]
OfRotationImpl(from, to) ==
    [i \in DOMAIN to |-> CHOOSE k \in DOMAIN from : from[k] = to[i]]

\* mutation of FromAllMembers: `decomps[c] = Some((b, a))`
RECURSIVE FromAllMembersSwapped(_, _, _)
FromAllMembersSwapped(members, a, b) ==
    IF a = 0 THEN [c \in DOMAIN members |-> <<>>]
    ELSE LET before == IF b = 1 THEN FromAllMembersSwapped(members, a - 1, a - 1)
                       ELSE FromAllMembersSwapped(members, a, b - 1)
             c == CHOOSE i \in DOMAIN members :
                     /\ members[i] = Mul(members[a], members[b])
                     /\ \A j \in DOMAIN members : members[j] = members[i] => j <= i
         IN IF c > a THEN [before EXCEPT ![c] = <<b, a>>] ELSE before

\* `decomps` of GroupTree::from_all_members after the turn (a, b) of its two
\* loops, <<>> for None (a = 0: before the loops).  `indices` has the last
\* place of each member.
RECURSIVE FromAllMembers(_, _, _)
FromAllMembers(members, a, b) ==
    IF a = 0 THEN [c \in DOMAIN members |-> <<>>]
    ELSE LET before == IF b = 1 THEN FromAllMembers(members, a - 1, a - 1)
                       ELSE FromAllMembers(members, a, b - 1)
             c == CHOOSE i \in DOMAIN members :
                     /\ members[i] = Mul(members[a], members[b])
                     /\ \A j \in DOMAIN members : members[j] = members[i] => j <= i
         IN IF c > a THEN [before EXCEPT ![c] = <<a, b>>] ELSE before

\* decomps[c] of the tree of `members`
Decomp(members, c) == FromAllMembers(members, Len(members), Len(members))[c]

\* the first k outputs of try_compute_homomorphism with the closures of the
\* assert_eq of of_spacegroup: `op.clone()` and `second * first`
RECURSIVE ComputeHomomorphism(_, _)
ComputeHomomorphism(members, k) ==
    IF k = 0 THEN <<>>
    ELSE LET out == ComputeHomomorphism(members, k - 1)
             ab == Decomp(members, k)
         IN Append(out, IF ab = <<>> THEN members[k]
                        ELSE Mul(out[ab[1]], out[ab[2]]))

\* the closure `compose` of of_spacegroup
Compose(second, first) == PermutedBy(first, second)

\* `ops` lists each member of a group once, in any order: the group of a
\* mirror, that of the rotations, or that of all the operations
SgInit ==
    /\ \E G \in { {<<1, 2, 3>>, <<2, 1, 3>>},
                  {<<1, 2, 3>>, <<2, 3, 1>>, <<3, 1, 2>>},
                  Bijections } :
          /\ sg_ops \in [1..Cardinality(G) -> G]
          /\ \A i, j \in 1..Cardinality(G) : sg_ops[i] = sg_ops[j] => i = j
    /\ sg_from \in Bijections
    /\ sg_out = <<>>
    /\ sg_pc = "tree"

\* one turn of the loop of try_compute_homomorphism for a member without a
\* decomposition: the closure `compute`
SgCompute ==
    /\ sg_pc = "tree"
    /\ Len(sg_out) < Len(sg_ops)
    /\ Decomp(sg_ops, Len(sg_out) + 1) = <<>>
    /\ sg_out' = Append(sg_out,
          OfRotationImpl(sg_from, TransformPrim(sg_ops[Len(sg_out) + 1], sg_from)))
    /\ UNCHANGED <<sg_ops, sg_from, sg_pc>>
    /\ UNCHANGED <<ev_vars, ls_vars, gs_vars, pd_vars, gg_vars, al_vars, ac_vars, cl_vars, tm_vars, lk_vars, ro_vars>>

\* one turn of that loop for a member with a decomposition (a, b):
\* `compose(&out[a], &out[b])`
SgCompose ==
    /\ sg_pc = "tree"
    /\ Len(sg_out) < Len(sg_ops)
    /\ LET ab == Decomp(sg_ops, Len(sg_out) + 1) IN
       /\ ab # <<>>
       /\ sg_out' = Append(sg_out, Compose(sg_out[ab[1]], sg_out[ab[2]]))
    /\ UNCHANGED <<sg_ops, sg_from, sg_pc>>
    /\ UNCHANGED <<ev_vars, ls_vars, gs_vars, pd_vars, gg_vars, al_vars, ac_vars, cl_vars, tm_vars, lk_vars, ro_vars>>

\* of_spacegroup returns `out`
SgReturn ==
    /\ sg_pc = "tree"
    /\ Len(sg_out) = Len(sg_ops)
    /\ sg_pc' = "returned"
    /\ UNCHANGED <<sg_ops, sg_from, sg_out>>
    /\ UNCHANGED <<ev_vars, ls_vars, gs_vars, pd_vars, gg_vars, al_vars, ac_vars, cl_vars, tm_vars, lk_vars, ro_vars>>

SgNext ==
    \/ SgCompute
    \/ SgCompose
    \/ SgReturn

\* no permutations are being computed
SgIdle ==
    /\ sg_ops = <<>>
    /\ sg_from = <<>>
    /\ sg_out = <<>>
    /\ sg_pc = "idle"

----------------------------------------------------------------------------
\* layer::assign_layers.  Coordinates along the axis are in units of
\* 1/Cells of the lattice vector, so that 1.0 is Cells; al_fracs[i] is that
\* coordinate of atom i and al_sep is `frac_sep` in the same units.

\* f64::fract: the part after the point, with the sign of x
Fract(x) == IF x >= 0 THEN x % Cells ELSE 0 - ((0 - x) % Cells)

\* the closure `reduce`
Reduce(x) == Fract(Fract(x) + Cells)

\* the place of atom i in `sorted`: the atoms are in the order of their
\* reduced coordinates, atoms with equal coordinates in the order of the
\* input (sort_by_key is stable)
SortedPos(fracs, i) ==
    1 + Cardinality({j \in 1..Len(fracs) :
                        \/ Reduce(fracs[j]) < Reduce(fracs[i])
                        \/ (Reduce(fracs[j]) = Reduce(fracs[i]) /\ j < i)})

\* `bx - ax > frac_sep`, written `>=`
SplitsAtSep(ax, bx, sep) == bx - ax >= sep

\* `bx - ax > frac_sep`: a new group starts at b
Splits(ax, bx, sep) == bx - ax > sep

\* assign_layers_impl for a supported normal: the layers and their count.
\* `splits` are the windows of `sorted` that start a new group, and the
\* group of an atom is the number of them before it; the last group is
\* joined to the first when the two are close across the periodic plane and
\* there is another group.
AssignLayersImpl(fracs, sep) ==
    IF Len(fracs) = 0 THEN [layers |-> <<>>, count |-> 0]
    ELSE
    LET n == Len(fracs)
        pos == [i \in 1..n |-> SortedPos(fracs, i)]
        \* the reduced coordinates in the order of `sorted`
        x == [k \in 1..n |-> Reduce(fracs[CHOOSE i \in 1..n : pos[i] = k])]
        splits == {w \in 1..(n - 1) : Splits(x[w], x[w + 1], sep)}
        ngroups == Cardinality(splits)
        wrap_distance == x[1] - (x[n] - Cells)
        join == wrap_distance <= sep /\ ngroups > 0
    IN [layers |-> [i \in 1..n |->
                       LET g == Cardinality({w \in splits : w < pos[i]}) IN
                       IF join /\ g = ngroups THEN 0 ELSE g],
        count |-> IF join THEN ngroups ELSE ngroups + 1]

AlNoResult == [kind |-> "none", layers |-> <<>>, count |-> 0]

AlInit ==
    /\ al_fracs \in UNION {[1..n -> (0 - 1)..Cells] : n \in 0..MaxAtoms}
    /\ al_sep \in 0..MaxSep
    /\ \/ al_normal = <<0, 1, 0>> /\ al_perp = TRUE
       \/ /\ Len(al_fracs) <= 1
          /\ al_sep = 0
          /\ \/ al_normal \in {<<1, 1, 0>>, <<0, 2, 0>>} /\ al_perp = TRUE
             \/ al_normal = <<0, 0, 1>> /\ al_perp = FALSE
    /\ al_pc = "start"
    /\ al_result = AlNoResult

\* assign_layers: no atoms, an unsupported normal, a lattice whose other
\* vectors are not perpendicular to the normal, or the layers
AssignLayers ==
    /\ al_pc = "start"
    /\ al_pc' = "returned"
    /\ al_result' =
          IF Len(al_fracs) = 0 THEN [kind |-> "Ok", layers |-> <<>>, count |-> 0]
          ELSE IF Cardinality({k \in 1..3 : al_normal[k] = 0}) # 2
                    \/ Cardinality({k \in 1..3 : al_normal[k] = 1}) # 1
                    \/ ~al_perp
               THEN [kind |-> "Err", layers |-> <<>>, count |-> 0]
          ELSE LET r == AssignLayersImpl(al_fracs, al_sep) IN
               [kind |-> "Ok", layers |-> r.layers, count |-> r.count]
    /\ UNCHANGED <<al_fracs, al_sep, al_normal, al_perp>>
    /\ UNCHANGED <<ev_vars, ls_vars, gs_vars, pd_vars, gg_vars, sg_vars, ac_vars, cl_vars, tm_vars, lk_vars, ro_vars>>

\* no layers are being assigned
AlIdle ==
    /\ al_fracs = <<>>
    /\ al_sep = 0
    /\ al_normal = <<0, 0, 0>>
    /\ al_perp = FALSE
    /\ al_pc = "idle"
    /\ al_result = AlNoResult

----------------------------------------------------------------------------
\* perform_acoustic_search.  The eigenvalues are -1 (negative), 0 (in
\* [0, 10)) or 10 (at least 10.0), in ascending order; ac_acoustic[i] tells
\* whether `ket.acousticness() >= 0.95` for mode i.  Indices start at 1, so
\* an index of the code is one less.

\* `eigenvalues.iter().position(|&x| x >= t).unwrap_or(eigenvalues.len())`
Position(eigenvalues, t) ==
    IF \E i \in DOMAIN eigenvalues : eigenvalues[i] >= t
    THEN (CHOOSE i \in DOMAIN eigenvalues :
             /\ eigenvalues[i] >= t
             /\ \A j \in 1..(i - 1) : eigenvalues[j] < t) - 1
    ELSE Len(eigenvalues)

\* `kinds` after the block that spots the translational modes
SpotTranslational(eigenvalues, acoustic) ==
    LET zero_index == Position(eigenvalues, 0)
        stop_index == Position(eigenvalues, 10)
        spotted == {i \in 1..stop_index : acoustic[i]}
        t_end == IF spotted = {} THEN zero_index
                 ELSE CHOOSE i \in spotted : \A j \in spotted : j <= i
    IN [i \in DOMAIN eigenvalues |->
           IF i > t_end THEN "Vibrational"
           ELSE IF i \in spotted THEN "Translational" ELSE "None"]

AcNoResult == [kind |-> "none", kinds |-> <<>>]

AcInit ==
    /\ \E n \in 0..MaxModes :
          /\ ac_eigenvalues \in [1..n -> {0 - 1, 0, 10}]
          /\ ac_acoustic \in [1..n -> BOOLEAN]
          /\ \A i \in 1..(n - 1) : ac_eigenvalues[i] <= ac_eigenvalues[i + 1]
    /\ ac_kinds = <<>>
    /\ ac_i = 0
    /\ ac_pc = "spot"
    /\ ac_result = AcNoResult

\* perform_acoustic_search returns r, or panics
AcReturn(r) ==
    /\ ac_result' = r
    /\ ac_pc' = "returned"

\* the block that spots the translational modes, with its `ensure!`
AcSpot ==
    /\ ac_pc = "spot"
    /\ LET spotted == {i \in 1..Position(ac_eigenvalues, 10) : ac_acoustic[i]} IN
       IF Cardinality(spotted) > 3
       THEN AcReturn([kind |-> "Err", kinds |-> <<>>]) /\ UNCHANGED ac_kinds
       ELSE /\ ac_kinds' = SpotTranslational(ac_eigenvalues, ac_acoustic)
            /\ ac_pc' = "build"
            /\ UNCHANGED ac_result
    /\ UNCHANGED <<ac_eigenvalues, ac_acoustic, ac_i>>
    /\ UNCHANGED <<ev_vars, ls_vars, gs_vars, pd_vars, gg_vars, sg_vars, al_vars, cl_vars, tm_vars, lk_vars, ro_vars>>

\* the supercell, `build(..)?` and `diff_at_pos(pos_0.flat())?`
AcBuild ==
    /\ ac_pc = "build"
    /\ \/ ac_pc' = "negative" /\ UNCHANGED ac_result
       \/ AcReturn([kind |-> "Err", kinds |-> <<>>])
    /\ UNCHANGED <<ac_eigenvalues, ac_acoustic, ac_kinds, ac_i>>
    /\ UNCHANGED <<ev_vars, ls_vars, gs_vars, pd_vars, gg_vars, sg_vars, al_vars, cl_vars, tm_vars, lk_vars, ro_vars>>

\* one turn of the loop over the first zero_index modes (mode ac_i + 1), or
\* its end
AcClassify ==
    /\ ac_pc = "negative"
    /\ IF ac_i >= Position(ac_eigenvalues, 0)
       THEN ac_pc' = "collect" /\ UNCHANGED <<ac_kinds, ac_i, ac_result>>
       ELSE IF ac_kinds[ac_i + 1] # "None"
       THEN ac_i' = ac_i + 1 /\ UNCHANGED <<ac_kinds, ac_pc, ac_result>>
       ELSE \/ /\ \E k \in {"Rotational", "Imaginary"} :
                     ac_kinds' = [ac_kinds EXCEPT ![ac_i + 1] = k]
               /\ ac_i' = ac_i + 1
               /\ UNCHANGED <<ac_pc, ac_result>>
            \/ /\ \E k \in {"Err", "panic: bad unit vector dot"} :
                     AcReturn([kind |-> k, kinds |-> <<>>])
               /\ UNCHANGED <<ac_kinds, ac_i>>
    /\ UNCHANGED <<ac_eigenvalues, ac_acoustic>>
    /\ UNCHANGED <<ev_vars, ls_vars, gs_vars, pd_vars, gg_vars, sg_vars, al_vars, cl_vars, tm_vars, lk_vars, ro_vars>>

\* `kinds.into_iter().map(|opt| opt.expect(..)).collect()`
AcCollect ==
    /\ ac_pc = "collect"
    /\ IF \E i \in DOMAIN ac_kinds : ac_kinds[i] = "None"
       THEN AcReturn([kind |-> "panic: every index should have been accounted for",
                      kinds |-> <<>>])
       ELSE AcReturn([kind |-> "Ok", kinds |-> ac_kinds])
    /\ UNCHANGED <<ac_eigenvalues, ac_acoustic, ac_kinds, ac_i>>
    /\ UNCHANGED <<ev_vars, ls_vars, gs_vars, pd_vars, gg_vars, sg_vars, al_vars, cl_vars, tm_vars, lk_vars, ro_vars>>

AcNext ==
    \/ AcSpot
    \/ AcBuild
    \/ AcClassify
    \/ AcCollect

\* no acoustic search is running
AcIdle ==
    /\ ac_eigenvalues = <<>>
    /\ ac_acoustic = <<>>
    /\ ac_kinds = <<>>
    /\ ac_i = 0
    /\ ac_pc = "idle"
    /\ ac_result = AcNoResult

----------------------------------------------------------------------------
\* cache_link(src, dest), called by several callers for one destination.
\* cl_dest is -1 while the destination does not exist, 0 for a file that was
\* there before the calls, and c for the content of the source of caller c.

ClInit ==
    /\ cl_cross_fs \in BOOLEAN
    /\ cl_dest \in {0 - 1, 0}
    /\ cl_pc = [c \in 1..MaxCallers |-> "hard_link"]

\* `hard_link(src, dest)`: fails when the destination exists or is on another
\* filesystem
ClHardLink(c) ==
    /\ cl_pc[c] = "hard_link"
    /\ IF cl_dest = 0 - 1 /\ ~cl_cross_fs
       THEN /\ cl_dest' = c
            /\ cl_pc' = [cl_pc EXCEPT ![c] = "Ok"]
       ELSE /\ cl_pc' = [cl_pc EXCEPT ![c] = "exists"]
            /\ UNCHANGED cl_dest
    /\ UNCHANGED cl_cross_fs
    /\ UNCHANGED <<ev_vars, ls_vars, gs_vars, pd_vars, gg_vars, sg_vars, al_vars, ac_vars, tm_vars, lk_vars, ro_vars>>

\* `if dest.exists() { return Ok(()); }`
ClExists(c) ==
    /\ cl_pc[c] = "exists"
    /\ cl_pc' = [cl_pc EXCEPT ![c] = IF cl_dest # 0 - 1 THEN "Ok" ELSE "copy"]
    /\ UNCHANGED <<cl_cross_fs, cl_dest>>
    /\ UNCHANGED <<ev_vars, ls_vars, gs_vars, pd_vars, gg_vars, sg_vars, al_vars, ac_vars, tm_vars, lk_vars, ro_vars>>

\* `copy(src, dest)?`: creates the destination or replaces its content, or
\* fails
ClCopy(c) ==
    /\ cl_pc[c] = "copy"
    /\ \/ /\ cl_dest' = c
          /\ cl_pc' = [cl_pc EXCEPT ![c] = "Ok"]
       \/ /\ cl_pc' = [cl_pc EXCEPT ![c] = "Err"]
          /\ UNCHANGED cl_dest
    /\ UNCHANGED cl_cross_fs
    /\ UNCHANGED <<ev_vars, ls_vars, gs_vars, pd_vars, gg_vars, sg_vars, al_vars, ac_vars, tm_vars, lk_vars, ro_vars>>

\* no cache_link is running
ClIdle ==
    /\ cl_cross_fs = FALSE
    /\ cl_dest = 0 - 1
    /\ cl_pc = <<>>

----------------------------------------------------------------------------
\* ArrayMapExt::try_map_the_thing (try_map_arr; try_arr_from_fn maps the array
\* of indices).  Elements are named by their place: <<"me", j>> is element j
\* of the array given, <<"out", j>> the value written to place j of `out`.
\* Indices start at 1.

\* mutation of TmDrops: the written values are dropped in the order they were
\* written
TmDropsForward(i, n) ==
    [k \in 1..(i - 1) |-> <<"out", k>>] \o [k \in 1..(n - i) |-> <<"me", i + k>>]

\* the drops of the Err arm when f fails at index i of n:
\* `out.array_as_slice()[..i].iter().rev()`, then `&me.array_as_slice()[i + 1..]`
TmDrops(i, n) ==
    [k \in 1..(i - 1) |-> <<"out", i - k>>] \o [k \in 1..(n - i) |-> <<"me", i + k>>]

TmInit ==
    /\ \E n \in 0..MaxLen : tm_me \in [1..n -> 0..1]
    /\ tm_out = <<>>
    /\ tm_dropped = <<>>
    /\ tm_result = "none"

\* one turn of the loop `for i in 0..Self::array_len()`, or the return after it
TryMapTheThing ==
    /\ tm_result = "none"
    /\ IF Len(tm_out) = Len(tm_me)
       THEN /\ tm_result' = "Ok"
            /\ UNCHANGED <<tm_out, tm_dropped>>
       ELSE \/ /\ \E x \in 0..1 : tm_out' = Append(tm_out, x)
               /\ UNCHANGED <<tm_dropped, tm_result>>
            \/ /\ tm_dropped' = TmDrops(Len(tm_out) + 1, Len(tm_me))
               /\ tm_result' = "Err"
               /\ UNCHANGED tm_out
    /\ UNCHANGED tm_me
    /\ UNCHANGED <<ev_vars, ls_vars, gs_vars, pd_vars, gg_vars, sg_vars, al_vars, ac_vars, cl_vars, lk_vars, ro_vars>>

\* no array is being mapped
TmIdle ==
    /\ tm_me = <<>>
    /\ tm_out = <<>>
    /\ tm_dropped = <<>>
    /\ tm_result = "idle"

----------------------------------------------------------------------------
\* LockfilePath and LockfileGuard for one path, used by several holders.
\* lk_file is 0 while the lock file does not exist and c when holder c
\* created it.  lk_pc[c] is "free" while c has no guard, "held" while it has
\* one, and "dropping" inside LockfileGuard::drop(self), after its `_drop()`
\* and before `self` goes out of scope.

LkInit ==
    /\ lk_file = 0
    /\ lk_pc = [c \in 1..MaxCallers |-> "free"]
    /\ lk_last = [c \in 1..MaxCallers |-> "none"]

\* try_lock (lock repeats it while it returns None): `create_new(true)`
\* creates the file or fails with AlreadyExists; another error is returned
LkTryLock(c) ==
    /\ lk_pc[c] = "free"
    /\ \/ /\ lk_file = 0
          /\ lk_file' = c
          /\ lk_pc' = [lk_pc EXCEPT ![c] = "held"]
          /\ lk_last' = [lk_last EXCEPT ![c] = "Some"]
       \/ /\ lk_file # 0
          /\ lk_last' = [lk_last EXCEPT ![c] = "None"]
          /\ UNCHANGED <<lk_file, lk_pc>>
       \/ /\ lk_last' = [lk_last EXCEPT ![c] = "Err"]
          /\ UNCHANGED <<lk_file, lk_pc>>
    /\ UNCHANGED <<ev_vars, ls_vars, gs_vars, pd_vars, gg_vars, sg_vars, al_vars, ac_vars, cl_vars, tm_vars, ro_vars>>

\* LockfileGuard::drop(self): `self._drop()` removes the file; `self` is
\* still to be dropped
LkDrop(c) ==
    /\ lk_pc[c] = "held"
    /\ lk_file' = 0
    /\ lk_pc' = [lk_pc EXCEPT ![c] = "dropping"]
    /\ lk_last' = [lk_last EXCEPT ![c] = IF lk_file # 0 THEN "Ok" ELSE "Err"]
    /\ UNCHANGED <<ev_vars, ls_vars, gs_vars, pd_vars, gg_vars, sg_vars, al_vars, ac_vars, cl_vars, tm_vars, ro_vars>>

\* <LockfileGuard as Drop>::drop, when a guard goes out of scope:
\* `let _ = self._drop();`
LkImplicitDrop(c) ==
    /\ lk_pc[c] \in {"held", "dropping"}
    /\ lk_file' = 0
    /\ lk_pc' = [lk_pc EXCEPT ![c] = "free"]
    /\ UNCHANGED lk_last
    /\ UNCHANGED <<ev_vars, ls_vars, gs_vars, pd_vars, gg_vars, sg_vars, al_vars, ac_vars, cl_vars, tm_vars, ro_vars>>

\* no lock file is in use
LkIdle ==
    /\ lk_file = 0
    /\ lk_pc = <<>>
    /\ lk_last = <<>>

----------------------------------------------------------------------------
\* perm::brute_force_near_identity and perm::of_rotation_impl with a
\* tolerance.  The lattice is a line of length `lattice`; a fractional
\* coordinate x stands for x / lattice of the lattice vector, so that the
\* cartesian coordinate is x itself; `tol` counts halves of that unit, so that
\* `distance2 < tol * tol` is 4 * diff * diff < tol * tol.  Places start at 1,
\* and 0 is UNSET.

\* mutation of BruteForceNearIdentity: `perm[from] = to`
RECURSIVE BruteForceFromTo(_, _, _, _, _, _, _)
BruteForceFromTo(lattice, from_fracs, to_fracs, tol, from, perm, search_start) ==
    LET n == Len(from_fracs)
        Nearest(d) == IF d >= 0 THEN (2 * d + lattice) \div (2 * lattice)
                    ELSE 0 - ((2 * (0 - d) + lattice) \div (2 * lattice))
        Diff(a, b) == (a - b) - lattice * Nearest(a - b)
        unset == {s \in search_start..n : perm[s] = 0}
        start == CHOOSE s \in unset : \A r \in unset : s <= r
        near == {to \in unset :
                    4 * Diff(from_fracs[from], to_fracs[to]) * Diff(from_fracs[from], to_fracs[to])
                       < tol * tol}
    IN IF from > n
       THEN IF \A i \in 1..n : perm[i] # 0
            THEN [kind |-> "Ok", perm |-> perm]
            ELSE [kind |-> "Err: multiple positions mapped to the same index", perm |-> <<>>]
       ELSE IF unset = {}
       THEN [kind |-> "panic: index out of bounds", perm |-> <<>>]
       ELSE IF near = {}
       THEN [kind |-> "Err: positions are too dissimilar", perm |-> <<>>]
       ELSE BruteForceFromTo(lattice, from_fracs, to_fracs, tol, from + 1,
                [perm EXCEPT ![from] = CHOOSE to \in near : \A t \in near : to <= t],
                start)

\* brute_force_near_identity from the turn `from` of the loop 'from on, with
\* `perm` and `search_start` as they are then.  `unset` are the places the
\* loop over `to` looks at, `start` is search_start after the while loop (it
\* reads past the end of `perm` when no place from search_start on is UNSET),
\* and `near` are the places with `distance2 < tol * tol`.
RECURSIVE BruteForceNearIdentity(_, _, _, _, _, _, _)
BruteForceNearIdentity(lattice, from_fracs, to_fracs, tol, from, perm, search_start) ==
    LET n == Len(from_fracs)
        Nearest(d) == IF d >= 0 THEN (2 * d + lattice) \div (2 * lattice)
                    ELSE 0 - ((2 * (0 - d) + lattice) \div (2 * lattice))
        Diff(a, b) == (a - b) - lattice * Nearest(a - b)
        unset == {s \in search_start..n : perm[s] = 0}
        start == CHOOSE s \in unset : \A r \in unset : s <= r
        near == {to \in unset :
                    4 * Diff(from_fracs[from], to_fracs[to]) * Diff(from_fracs[from], to_fracs[to])
                       < tol * tol}
    IN IF from > n
       THEN IF \A i \in 1..n : perm[i] # 0
            THEN [kind |-> "Ok", perm |-> perm]
            ELSE [kind |-> "Err: multiple positions mapped to the same index", perm |-> <<>>]
       ELSE IF unset = {}
       THEN [kind |-> "panic: index out of bounds", perm |-> <<>>]
       ELSE IF near = {}
       THEN [kind |-> "Err: positions are too dissimilar", perm |-> <<>>]
       ELSE BruteForceNearIdentity(lattice, from_fracs, to_fracs, tol, from + 1,
                [perm EXCEPT ![CHOOSE to \in near : \A t \in near : to <= t] = from],
                start)

\* of_rotation_impl: both sides are sorted by the distance to the nearest
\* lattice point (argsort keeps the order of equal distances), matched, and
\* the three permutations composed
OfRotationImplTol(lattice, from_fracs, to_fracs, tol) ==
    LET n == Len(from_fracs)
        Nearest(d) == IF d >= 0 THEN (2 * d + lattice) \div (2 * lattice)
                      ELSE 0 - ((2 * (0 - d) + lattice) \div (2 * lattice))
        Abs(x) == IF x >= 0 THEN x ELSE 0 - x
        \* `*x -= x.round()` and `distances`, for each side
        reduced_from == [i \in 1..n |-> from_fracs[i] - lattice * Nearest(from_fracs[i])]
        reduced_to == [i \in 1..n |-> to_fracs[i] - lattice * Nearest(to_fracs[i])]
        \* the place of element i in the sorted order, and argsort
        place_from == [i \in 1..n |->
            1 + Cardinality({j \in 1..n :
                    \/ Abs(reduced_from[j]) < Abs(reduced_from[i])
                    \/ (Abs(reduced_from[j]) = Abs(reduced_from[i]) /\ j < i)})]
        place_to == [i \in 1..n |->
            1 + Cardinality({j \in 1..n :
                    \/ Abs(reduced_to[j]) < Abs(reduced_to[i])
                    \/ (Abs(reduced_to[j]) = Abs(reduced_to[i]) /\ j < i)})]
        perm_from == [k \in 1..n |-> CHOOSE i \in 1..n : place_from[i] = k]
        perm_to == [k \in 1..n |-> CHOOSE i \in 1..n : place_to[i] = k]
        perm_between ==
            BruteForceNearIdentity(lattice,
                PermutedBy(reduced_from, perm_from),
                PermutedBy(reduced_to, perm_to),
                tol, 1, [i \in 1..n |-> 0], 1)
    IN IF perm_between.kind # "Ok" THEN perm_between
       ELSE [kind |-> "Ok",
             \* perm_from.permuted_by(&perm_between).permuted_by(&perm_to.inverted()):
             \* perm_to.inverted() is place_to
             perm |-> PermutedBy(PermutedBy(perm_from, perm_between.perm), place_to)]

\* a call of one of the two functions
RoCall ==
    /\ ro_result = [kind |-> "none", perm |-> <<>>]
    /\ ro_result' =
          IF ro_fn = "of_rotation_impl"
          THEN OfRotationImplTol(ro_lattice, ro_from, ro_to, ro_tol)
          ELSE BruteForceNearIdentity(ro_lattice, ro_from, ro_to, ro_tol,
                                      1, [i \in DOMAIN ro_from |-> 0], 1)
    /\ UNCHANGED <<ro_fn, ro_lattice, ro_from, ro_to, ro_tol>>
    /\ UNCHANGED <<ev_vars, ls_vars, gs_vars, pd_vars, gg_vars, sg_vars, al_vars, ac_vars, cl_vars, tm_vars, lk_vars>>

\* no permutation is being searched for
RoIdle ==
    /\ ro_fn = "idle"
    /\ ro_lattice = 0
    /\ ro_from = <<>>
    /\ ro_to = <<>>
    /\ ro_tol = 0
    /\ ro_result = [kind |-> "idle", perm |-> <<>>]

\* no line search is running
LsIdle ==
    /\ ls_from = 0
    /\ ls_step = 0
    /\ ls_evals = <<>>
    /\ ls_calls = <<>>
    /\ ls_mirrored = FALSE
    /\ ls_center = 0
    /\ ls_a = NoBound
    /\ ls_b = NoBound
    /\ ls_lo = NoBound
    /\ ls_hi = NoBound
    /\ ls_bprobes = <<>>
    /\ ls_pc = "idle"
    /\ ls_result = NoResult

\* no EV loop is running
EvIdle ==
    /\ config = [min_positive_iter |-> 0, max_iter |-> 0, fail |-> FALSE]
    /\ ev_chase = "OneByOne"
    /\ iteration = NewFsm.iteration
    /\ all_ok_count = NewFsm.all_ok_count
    /\ status = "None"
    /\ nsteps = 0
    /\ all_chased = TRUE
    /\ last_did = "None"
    /\ pc = "idle"
    /\ cur = 0
    /\ structure = 0
    /\ pre_chase = 0
    /\ classifications = <<>>
    /\ chased = <<>>
    /\ did_chasing = "None"
    /\ files = <<>>
    /\ trail = <<>>

\* a run of do_main_ev_loop
Init == EvInit /\ LsIdle /\ GsIdle /\ PdIdle /\ GgIdle /\ SgIdle /\ AlIdle /\ AcIdle /\ ClIdle /\ TmIdle /\ LkIdle /\ RoIdle

Spec == Init /\ [][EvNext]_vars

\* a call of exact_ls::linesearch
InitLs == LsInit /\ EvIdle /\ GsIdle /\ PdIdle /\ GgIdle /\ SgIdle /\ AlIdle /\ AcIdle /\ ClIdle /\ TmIdle /\ LkIdle /\ RoIdle

SpecLs == InitLs /\ [][LsNext]_vars

\* a call of exact_ls::golden; the function runs until it returns
InitGs == GsInit /\ EvIdle /\ LsIdle /\ PdIdle /\ GgIdle /\ SgIdle /\ AlIdle /\ AcIdle /\ ClIdle /\ TmIdle /\ LkIdle /\ RoIdle

SpecGs == InitGs /\ [][GsNext]_vars /\ WF_vars(GsNext)

\* a call of either search of exact_ls
InitSearch == InitLs \/ InitGs

SpecSearch == InitSearch /\ [][LsNext \/ GsNext]_vars

\* a call of log_stdio_and_wait, with the child and the two workers
InitPd == PdInit /\ EvIdle /\ LsIdle /\ GsIdle /\ GgIdle /\ SgIdle /\ AlIdle /\ AcIdle /\ ClIdle /\ TmIdle /\ LkIdle /\ RoIdle

SpecPd == InitPd /\ [][PdNext]_vars

\* a call of generate_finite_group
InitGg == GgInit /\ EvIdle /\ LsIdle /\ GsIdle /\ PdIdle /\ SgIdle /\ AlIdle /\ AcIdle /\ ClIdle /\ TmIdle /\ LkIdle /\ RoIdle

SpecGg == InitGg /\ [][GgNext]_vars

\* a call of of_spacegroup
InitSg == SgInit /\ EvIdle /\ LsIdle /\ GsIdle /\ PdIdle /\ GgIdle /\ AlIdle /\ AcIdle /\ ClIdle /\ TmIdle /\ LkIdle /\ RoIdle

SpecSg == InitSg /\ [][SgNext]_vars

\* a call of assign_layers
InitAl == AlInit /\ EvIdle /\ LsIdle /\ GsIdle /\ PdIdle /\ GgIdle /\ SgIdle /\ AcIdle /\ ClIdle /\ TmIdle /\ LkIdle /\ RoIdle

SpecAl == InitAl /\ [][AssignLayers]_vars

\* a call of perform_acoustic_search
InitAc ==
    AcInit /\ EvIdle /\ LsIdle /\ GsIdle /\ PdIdle /\ GgIdle /\ SgIdle /\ AlIdle /\ ClIdle /\ TmIdle /\ LkIdle /\ RoIdle

SpecAc == InitAc /\ [][AcNext]_vars

\* a call of try_map_arr
InitTm ==
    TmInit /\ GsIdle /\ PdIdle /\ GgIdle /\ SgIdle /\ AlIdle /\ AcIdle /\ ClIdle /\ LsIdle /\ EvIdle /\ LkIdle /\ RoIdle

SpecTm == InitTm /\ [][TryMapTheThing]_vars

\* a call of brute_force_near_identity or of of_rotation_impl, for a lattice
\* of length 2 or 3 and coordinates 0, 1 and 2 (for length 2 not all of them
\* reduced)
InitRo ==
    /\ ro_fn \in {"brute_force_near_identity", "of_rotation_impl"}
    /\ ro_lattice \in {2, 3}
    /\ \E n \in 0..MaxSites :
          /\ ro_from \in [1..n -> 0..2]
          /\ ro_to \in [1..n -> 0..2]
    /\ ro_tol \in 0..MaxTol
    /\ ro_result = [kind |-> "none", perm |-> <<>>]
    /\ GsIdle /\ PdIdle /\ GgIdle /\ SgIdle /\ AlIdle /\ AcIdle /\ ClIdle /\ TmIdle /\ LkIdle /\ LsIdle /\ EvIdle

SpecRo == InitRo /\ [][RoCall]_vars

\* several holders of one lock file
InitLk ==
    LkInit /\ GsIdle /\ PdIdle /\ GgIdle /\ SgIdle /\ AlIdle /\ AcIdle /\ ClIdle /\ TmIdle /\ LsIdle /\ EvIdle /\ RoIdle

SpecLk ==
    InitLk /\ [][\E c \in 1..MaxCallers : LkTryLock(c) \/ LkDrop(c) \/ LkImplicitDrop(c)]_vars

\* concurrent calls of cache_link for one destination
InitCl ==
    ClInit /\ GsIdle /\ PdIdle /\ GgIdle /\ SgIdle /\ AlIdle /\ AcIdle /\ LsIdle /\ EvIdle /\ TmIdle /\ LkIdle /\ RoIdle

SpecCl ==
    InitCl /\ [][\E c \in 1..MaxCallers : ClHardLink(c) \/ ClExists(c) \/ ClCopy(c)]_vars

----------------------------------------------------------------------------
\* Properties of the EV loop, checked under Spec.

\* C1: EvLoopFsm starts with iteration = 1 and all_ok_count = 0, and a step
\* with DidEvChasing(true) resets all_ok_count to 0, increases iteration by
\* 1, returns ItsBadGuys (Exhausted) when the new iteration exceeds max_iter
\* and fail is true, and KeepGoing when it does not exceed max_iter.
C1_ChaseStep ==
    /\ (iteration = 1 /\ all_ok_count = 0)
    /\ [][(pc = "step" /\ did_chasing = "true") =>
            /\ all_ok_count' = 0
            /\ iteration' = iteration + 1
            /\ (iteration' > config.max_iter /\ config.fail
                    => status' = "ItsBadGuys")
            /\ (iteration' <= config.max_iter => status' = "KeepGoing")]_vars

\* a chasing step that came after a clean one and hit the iteration bound
C1_Witness ==
    /\ last_did = "true"
    /\ status = "ItsBadGuys"
    /\ ~all_chased
    /\ iteration = config.max_iter + 1

\* C2: a step with DidEvChasing(false) increases all_ok_count by 1 and
\* returns Done if the new count has reached min_positive_iter, and
\* KeepGoing otherwise.
C2_CleanStep ==
    [][(pc = "step" /\ did_chasing = "false") =>
         /\ all_ok_count' = all_ok_count + 1
         /\ (all_ok_count' >= config.min_positive_iter => status' = "Done")
         /\ (all_ok_count' < config.min_positive_iter
                 => status' = "KeepGoing")]_vars

\* a clean streak of at least two iterations that ended the loop
C2_Witness ==
    /\ last_did = "false"
    /\ status = "Done"
    /\ all_ok_count = config.min_positive_iter
    /\ all_ok_count >= 2

\* C3 as claimed: the loop returns successfully only after a clean streak of
\* min_positive_iter iterations, the last of which chased nothing, whatever
\* the value of fail.
C3_DoneOnlyAfterCleanStreak ==
    (pc = "done" /\ config.max_iter >= 1 /\ config.min_positive_iter >= 1) =>
        /\ did_chasing = "false"
        /\ all_ok_count >= config.min_positive_iter
        /\ BadEvs(classifications) = <<>>

\* C3 as amended: Done is returned after a clean streak of min_positive_iter
\* iterations, or on a chasing iteration that exceeds max_iter when fail is
\* false; ItsBadGuys is returned only on a chasing iteration that exceeds
\* max_iter with fail true; so with fail true a successful run ended on an
\* iteration with no Imaginary mode.
C3_DoneOrWarned ==
    /\ status = "Done" =>
          \/ (last_did = "false" /\ all_ok_count >= config.min_positive_iter)
          \/ (last_did = "true" /\ ~config.fail /\ iteration > config.max_iter)
    /\ status = "ItsBadGuys" =>
          (last_did = "true" /\ config.fail /\ iteration > config.max_iter)
    /\ (pc = "done" /\ config.fail) =>
          /\ did_chasing = "false"
          /\ all_ok_count >= config.min_positive_iter
          /\ BadEvs(classifications) = <<>>

\* a successful run with fail = true that chased before its clean streak
C3_Witness ==
    /\ pc = "done"
    /\ config.fail
    /\ did_chasing = "false"
    /\ nsteps > all_ok_count
    /\ config.min_positive_iter >= 2

\* only KeepGoing has been returned so far
Running == status \in {"None", "KeepGoing"}

C5_AllChasedExhausts ==
    (config.max_iter >= 1 /\ config.fail /\ all_chased /\ nsteps >= 1) =>
        /\ nsteps <= config.max_iter
        /\ (nsteps < config.max_iter =>
                status = "KeepGoing" /\ pc # "done")
        /\ (nsteps = config.max_iter => status = "ItsBadGuys" /\ pc = "err")

\* three chasing iterations ended the run with an error
C5_Witness ==
    /\ all_chased
    /\ config.fail
    /\ config.max_iter >= 3
    /\ nsteps = config.max_iter
    /\ pc = "err"

\* the steps of one iteration the claim lists, in order
IterationOrder ==
    <<"relax", "write1", "analysis", "write_eig", "chase", "write2", "step">>

IsPrefix(s, t) == Len(s) <= Len(t) /\ \A i \in 1..Len(s) : s[i] = t[i]

Listed(e) == e # "warn"

\* the artifacts of a whole iteration
IterationFiles(n) == <<StructureName(n, 1), EigenName(n), StructureName(n, 2)>>

Written(e) == e \in {"write1", "write_eig", "write2"}

\* C6: within every iteration the steps run in the order relax, write
\* structure-NN.1, eigen-analysis, write eigenvalues.NN, chase, write
\* structure-NN.2, FSM step; NN is the iteration number read at the start of
\* the iteration, 01 in the first and one more in each later one; no
\* artifact name is written twice.
C6_IterationOrder ==
    /\ IsPrefix(SelectSeq(trail, Listed), IterationOrder)
    /\ cur # 0 =>
          cur = IF trail # <<>> /\ trail[Len(trail)] = "step"
                THEN nsteps ELSE nsteps + 1
    /\ cur # 0 =>
          /\ Len(files) = 3 * (cur - 1) + Len(SelectSeq(trail, Written))
          /\ \A i \in 1..Len(files) :
                files[i] = IterationFiles(((i - 1) \div 3) + 1)[((i - 1) % 3) + 1]
    /\ \A i \in 1..Len(files) : \A j \in (i + 1)..Len(files) : files[i] # files[j]

\* the second iteration has run all its steps
C6_Witness ==
    /\ cur = 2
    /\ SelectSeq(trail, Listed) = IterationOrder
    /\ Len(files) = 6
    /\ files[4] = [kind |-> "structure", nn |-> <<0, 2>>, part |-> 1]

\* C7: the FSM input of an iteration is true exactly when some mode of its
\* analysis is Imaginary; the chase then runs along exactly the Imaginary
\* modes in band order; with none the structure is passed on unchanged and
\* no chase runs.
C7_ChaseImaginaryModes ==
    /\ did_chasing # "None" =>
          /\ (did_chasing = "true") = (\E i \in DOMAIN classifications :
                                          classifications[i] = "Imaginary")
          /\ did_chasing = "true" =>
                /\ {chased[i] : i \in DOMAIN chased}
                      = {k \in DOMAIN classifications :
                             classifications[k] = "Imaginary"}
                /\ \A i, j \in DOMAIN chased : i < j => chased[i] < chased[j]
          /\ did_chasing = "false" => (chased = <<>> /\ structure = pre_chase)
    /\ (trail # <<>> /\ trail[Len(trail)] = "step") => last_did = did_chasing

\* an iteration that chased two modes and fed that to the FSM
C7_Witness ==
    /\ did_chasing = "true"
    /\ Len(chased) >= 2
    /\ last_did = "true"
    /\ trail # <<>> /\ trail[Len(trail)] = "step"

----------------------------------------------------------------------------
\* Properties of exact_ls::linesearch, checked under SpecLs.

\* the callback returned a slope of exactly zero at `from`
StartSlopeZero ==
    /\ ls_from \in DOMAIN ls_evals
    /\ ls_evals[ls_from] = [kind |-> "slope", slope |-> 0]

\* the callback has returned only finite slopes
OnlyFiniteSlopes == \A x \in DOMAIN ls_evals : ls_evals[x].kind = "slope"

\* C8 as claimed: called with a starting slope of exactly zero and a
\* positive initial step, the bound linesearch returns is at the starting
\* alpha, for every slope function.
C8_ZeroSlopeReturnsStart ==
    (ls_result.kind = "bound" /\ ls_step > 0 /\ StartSlopeZero) =>
        ls_result.alpha = ls_from

\* C8 as amended: called with a starting slope of exactly zero and a
\* positive initial step, linesearch returns the starting alpha (with slope
\* zero) whenever the callback returns a finite slope >= 0 at every abscissa
\* beyond the start that the search probes.
C8_ZeroSlopeNonNegativeReturnsStart ==
    (/\ ls_pc = "returned"
     /\ ls_step > 0
     /\ StartSlopeZero
     /\ OnlyFiniteSlopes
     /\ \A x \in DOMAIN ls_evals : x > ls_from => ls_evals[x].slope >= 0) =>
        ls_result = [kind |-> "bound", alpha |-> ls_from, slope |-> 0]

\* the search bisected at least once and came back to the start
C8_Witness ==
    /\ ls_pc = "returned"
    /\ ls_step > 0
    /\ StartSlopeZero
    /\ Cardinality(DOMAIN ls_evals) >= 3
    /\ \E x \in DOMAIN ls_evals : ls_evals[x] = [kind |-> "slope", slope |-> 0] /\ x > ls_from
    /\ ls_result = [kind |-> "bound", alpha |-> ls_from, slope |-> 0]

\* C9: a bound returned by linesearch is a bracket endpoint of the caller's
\* own slope function: the callback was called at its alpha and returned its
\* slope there, also when the search was mirrored.
C9_BoundIsCallersEndpoint ==
    ls_result.kind = "bound" =>
        /\ ls_result.alpha \in DOMAIN ls_evals
        /\ ls_evals[ls_result.alpha] = [kind |-> "slope", slope |-> ls_result.slope]

\* what do_minimize_along_evec relies on when it moves to the returned
\* alpha: the callback was called there (fails for mirrored searches)
LsReturnedAlphaWasProbed ==
    ls_result.kind = "bound" => ls_result.alpha \in DOMAIN ls_evals

\* a search that starts with a slope <= 0 is not mirrored, and the bound it
\* returns is an endpoint of the caller's own slope function (holds)
LsUnmirroredBoundIsCallersEndpoint ==
    (ls_result.kind = "bound" /\ ~ls_mirrored) =>
        /\ ls_result.alpha \in DOMAIN ls_evals
        /\ ls_evals[ls_result.alpha] = [kind |-> "slope", slope |-> ls_result.slope]

RECURSIVE Pow2(_)
Pow2(k) == IF k = 0 THEN 1 ELSE 2 * Pow2(k - 1)

\* the abscissa of the k-th bracketing probe, k = 0, 1, 2, ...
ProbeAlpha(k) == Round(ls_from + Pow2(k) * ls_step)

\* C10: the bracketing probes are at from + 2^k * initial_step for
\* k = 0, 1, 2, ... (abscissae and slopes as find_initial sees them: those
\* of the mirrored problem when the search is mirrored); bracketing stops at
\* the first probe whose slope is >= 0; NoMinimum is returned when the next
\* abscissa is not finite before such a probe is found.
C10_Bracketing ==
    /\ [](/\ \A k \in 1..Len(ls_bprobes) :
                /\ ls_bprobes[k].alpha = ProbeAlpha(k - 1)
                /\ ls_calls[k + 1] = CallbackAlpha(ProbeAlpha(k - 1))
                /\ k < Len(ls_bprobes) => ls_bprobes[k].slope < 0
          /\ ls_pc = "bisect" =>
                ls_bprobes[Len(ls_bprobes)].slope >= 0
          /\ ls_result.kind = "NoMinimum" =>
                /\ \A k \in 1..Len(ls_bprobes) : ls_bprobes[k].slope < 0
                /\ ~IsFinite(ProbeAlpha(Len(ls_bprobes))))
    /\ [][/\ (ls_pc = "find_initial" /\ ls_b.slope >= 0)
                => ls_bprobes' = ls_bprobes
          /\ (ls_pc = "find_initial" /\ ls_b.slope < 0
                /\ ~IsFinite(ProbeAlpha(Len(ls_bprobes))))
                => ls_result'.kind = "NoMinimum"]_vars

\* bracketing took three probes away from a start other than zero
C10_Witness ==
    /\ ls_pc = "bisect"
    /\ ls_from # 0
    /\ Len(ls_bprobes) >= 3
    /\ ls_hi.alpha = ls_from + 4 * ls_step

\* C11: during the bisection lo.slope <= 0 <= hi.slope and
\* lo.alpha <= hi.alpha; every evaluated midpoint lies strictly between
\* lo.alpha and hi.alpha; the search returns the current lo exactly when the
\* computed midpoint is not strictly between the endpoints.
C11_BisectInvariants ==
    /\ [](ls_pc = "bisect" =>
            /\ ls_lo.slope <= 0
            /\ ls_hi.slope >= 0
            /\ ls_lo.alpha <= ls_hi.alpha)
    /\ [][ls_pc = "bisect" =>
            LET mid == Midpoint(ls_lo.alpha, ls_hi.alpha)
                inside == ls_lo.alpha < mid /\ mid < ls_hi.alpha IN
            /\ ls_lo' # ls_lo =>
                  (ls_lo.alpha < ls_lo'.alpha /\ ls_lo'.alpha < ls_hi.alpha
                     /\ ls_hi' = ls_hi)
            /\ ls_hi' # ls_hi =>
                  (ls_lo.alpha < ls_hi'.alpha /\ ls_hi'.alpha < ls_hi.alpha
                     /\ ls_lo' = ls_lo)
            /\ ls_calls' # ls_calls =>
                  (inside /\ ls_calls' = Append(ls_calls, CallbackAlpha(mid)))
            /\ (ls_result'.kind = "bound") = (~inside)
            /\ ~inside => ls_result' = [kind |-> "bound", alpha |-> ls_lo.alpha,
                                        slope |-> ls_lo.slope]]_vars

\* a bisection that has replaced both of its endpoints
C11_Witness ==
    /\ ls_pc = "bisect"
    /\ ls_lo # ls_a
    /\ ls_hi # ls_b
    /\ ls_lo.alpha < ls_hi.alpha

----------------------------------------------------------------------------
\* Callback errors and outputs that are not finite, in both searches.

Last(q) == q[Len(q)]

LsSaw(kind) == \E x \in DOMAIN ls_evals : ls_evals[x].kind = kind

GsSaw(kind) == \E x \in DOMAIN gs_evals : gs_evals[x].kind = kind

\* C12: once the callback has returned an error the search has returned, the
\* failing call is the last call of the callback, and the search hands back
\* Ok(Err(e)); it hands back Ok(Err(..)) in no other case.  Once the callback
\* has returned a value that is not finite the search has returned the outer
\* error FunctionOutput carrying that value.  A search that has returned
\* takes no further step.
C12_CallbackErrorStopsAtOnce ==
    /\ LsSaw("err") =>
          /\ ls_pc = "returned"
          /\ ls_evals[Last(ls_calls)].kind = "err"
          /\ NestErr(ls_result).outer = "Ok"
          /\ NestErr(ls_result).inner = "Err"
    /\ GsSaw("err") =>
          /\ gs_pc = "returned"
          /\ gs_evals[gs_last].kind = "err"
          /\ NestErr(gs_result).outer = "Ok"
          /\ NestErr(gs_result).inner = "Err"
    /\ (ls_pc = "returned" /\ ls_result.kind # "panic"
            /\ NestErr(ls_result).inner = "Err") => LsSaw("err")
    /\ (gs_pc = "returned" /\ NestErr(gs_result).inner = "Err") => GsSaw("err")
    /\ LsSaw("nonfinite") =>
          /\ ls_pc = "returned"
          /\ ls_evals[Last(ls_calls)].kind = "nonfinite"
          /\ NestErr(ls_result).outer = "Err"
          /\ ls_result.kind = "FunctionOutput"
          /\ ls_result.slope = ls_evals[Last(ls_calls)].slope
    /\ GsSaw("nonfinite") =>
          /\ gs_pc = "returned"
          /\ gs_evals[gs_last].kind = "nonfinite"
          /\ NestErr(gs_result).outer = "Err"
          /\ gs_result.kind = "FunctionOutput"
          /\ gs_result.value = gs_evals[gs_last].value
    /\ (ls_pc = "returned" \/ gs_pc = "returned") => ~ENABLED (LsNext \/ GsNext)

\* golden has handed back a callback error met inside its loop
C12_Witness ==
    /\ gs_pc = "returned"
    /\ NestErr(gs_result) = [outer |-> "Ok", inner |-> "Err", value |-> gs_result]
    /\ gs_b # NoValueBound
    /\ gs_evals[gs_last].kind = "err"

----------------------------------------------------------------------------
\* Termination of golden.

\* every value the callback has returned so far is the same finite value
GsFlat ==
    /\ \A x \in DOMAIN gs_evals : gs_evals[x].kind = "value"
    /\ \A x, y \in DOMAIN gs_evals : gs_evals[x].value = gs_evals[y].value

\* C13: golden called with a function that has the same value everywhere
\* returns after finitely many calls of the callback.
C13_FlatTerminates == <>(gs_pc = "returned" \/ ~GsFlat)

----------------------------------------------------------------------------
\* The driver of child processes.

\* C14: log_stdio_and_wait returns, with success or with an error, only after
\* the child it started has exited and both workers have been joined.
C14_ReturnsAfterExitAndJoins ==
    (pd_pc = "returned" /\ child_starts > 0) =>
        /\ child_state = "exited"
        /\ \A s \in Streams : joined[s]

\* C15: the child is started at most once; PhonopyFailed(status) is returned
\* for an exit status other than success and only then; success is returned
\* only when the child succeeded and no read from its pipes failed; a failed
\* read of a worker that was joined gives an I/O error.
C15_EveryFailureReported ==
    /\ child_starts <= 1
    /\ pd_pc = "returned" =>
          /\ pd_result.kind = "PhonopyFailed" =>
                /\ child_state = "exited"
                /\ child_status # "success"
                /\ pd_result.detail = child_status
          /\ pd_result = PdOk =>
                /\ child_status = "success"
                /\ \A s \in Streams : worker[s] # "err"
          /\ (\E s \in Streams : joined[s] /\ worker[s] = "err") =>
                pd_result.kind = "Io"

\* C16: a child whose driver has returned had both workers spawned; a worker
\* has ended only at the end of its stream; the lines a worker has logged are
\* the first lines the child wrote to that stream, in order.
C16_TwoWorkersInOrder ==
    /\ (pd_pc = "returned" /\ child_starts > 0) =>
          \A s \in Streams : worker[s] # "none"
    /\ \A s \in Streams :
          /\ worker[s] \in {"ok", "err"} =>
                (pipe[s] = <<>> /\ child_state = "exited")
          /\ Len(log[s]) <= child_written[s]
          /\ \A i \in 1..Len(log[s]) : log[s][i] = i

----------------------------------------------------------------------------
\* Closure of a set of generators.

\* the generators generate a finite group
GgCloses == gg_mod > 0 \/ \A i \in 1..Len(gg_generators) : gg_generators[i] = 0

\* C17: a list that generate_finite_group returns is closed under the
\* product, and a set of generators that does not close is rejected with an
\* error, at the latest when MaxOut elements have been listed: the search
\* does not go on for ever.
C17_NonClosingSetRejected ==
    /\ gg_pc = "returned" =>
          \A i, j \in 1..Len(gg_out) :
              \E k \in 1..Len(gg_out) : gg_out[k] = GFn(gg_out[i], gg_out[j])
    /\ (~GgCloses /\ gg_pc # "start" /\ Len(gg_out) >= MaxOut) => gg_pc = "rejected"

----------------------------------------------------------------------------
\* Site permutations of a space group.

\* C18: every permutation of_spacegroup computes, for a member with or
\* without a decomposition, is the one induced by its operation: the
\* operation applied to the positions gives the positions permuted by it; so
\* the permutation composed for a member equals the one found directly.
C18_PermutationInducedByOperation ==
    \A i \in 1..Len(sg_out) :
        /\ TransformPrim(sg_ops[i], sg_from) = PermutedBy(sg_from, sg_out[i])
        /\ sg_out[i] = OfRotationImpl(sg_from, TransformPrim(sg_ops[i], sg_from))

----------------------------------------------------------------------------
\* Layers.

\* the distance of two reduced coordinates along the periodic axis
AlDistance(x, y) ==
    LET d == IF x >= y THEN x - y ELSE y - x IN IF d <= Cells - d THEN d ELSE Cells - d

\* the atoms linked to an atom of S by a chain of at most k further atoms
\* whose consecutive reduced coordinates are at most al_sep apart
RECURSIVE AlChain(_, _)
AlChain(S, k) ==
    IF k = 0 THEN S
    ELSE AlChain(S \cup {j \in 1..Len(al_fracs) :
                           \E i \in S : AlDistance(Reduce(al_fracs[i]),
                                                   Reduce(al_fracs[j])) <= al_sep},
                 k - 1)

AlLinked(i, j) == j \in AlChain({i}, Len(al_fracs))

\* the list x with its elements a and b exchanged
AlExchanged(x, a, b) ==
    [i \in DOMAIN x |-> IF i = a THEN x[b] ELSE IF i = b THEN x[a] ELSE x[i]]

\* C19: when assign_layers returns layers, two atoms have the same layer
\* exactly when they are linked by a chain of atoms whose consecutive reduced
\* coordinates along the periodic axis differ by at most the separation; the
\* layers of the atoms are exactly the numbers 0..count-1; and for the atoms
\* listed with any two of them exchanged (hence, in any other order) the
\* result is that with the same two layers exchanged, with the same count.
C19_LayersAreChains ==
    (al_pc = "returned" /\ al_result.kind = "Ok") =>
        LET n == Len(al_fracs) IN
        /\ Len(al_result.layers) = n
        /\ \A i, j \in 1..n :
              (al_result.layers[i] = al_result.layers[j]) = AlLinked(i, j)
        /\ {al_result.layers[i] : i \in 1..n} = 0..(al_result.count - 1)
        /\ \A a, b \in 1..n :
              a < b =>
                  AssignLayersImpl(AlExchanged(al_fracs, a, b), al_sep)
                      = [layers |-> AlExchanged(al_result.layers, a, b),
                         count |-> al_result.count]

\* two layers, the first of which holds atoms on both sides of the periodic
\* plane that are farther apart than the separation inside the cell
C19_Witness ==
    /\ al_pc = "returned"
    /\ al_result.kind = "Ok"
    /\ al_result.count = 2
    /\ \E i, j \in 1..Len(al_fracs) :
          /\ al_result.layers[i] = 0
          /\ al_result.layers[j] = 0
          /\ Reduce(al_fracs[j]) - Reduce(al_fracs[i]) > al_sep
          /\ al_fracs[i] # Reduce(al_fracs[i])

----------------------------------------------------------------------------
\* Classification of the modes.

\* C20: the final expect of perform_acoustic_search never fails, and the
\* kinds it returns are one ModeKind for each eigenvalue, Vibrational for every
\* mode after the last mode that is translational or has a negative
\* eigenvalue.
C20_EveryModeClassified ==
    /\ ac_result.kind # "panic: every index should have been accounted for"
    /\ ac_result.kind = "Ok" =>
          /\ Len(ac_result.kinds) = Len(ac_eigenvalues)
          /\ \A i \in DOMAIN ac_result.kinds :
                /\ ac_result.kinds[i] \in ModeKind
                /\ (\A j \in i..Len(ac_eigenvalues) :
                       ac_eigenvalues[j] >= 0 /\ ac_result.kinds[j] # "Translational")
                      => ac_result.kinds[i] = "Vibrational"

----------------------------------------------------------------------------
\* Failures of the relaxation step.

\* C21: when the relaxation step of an iteration fails (the loop body has
\* begun and the relaxation has not been done), do_main_ev_loop has returned
\* an error value and has not panicked.
C21_RelaxFailureIsErrorValue ==
    (pc \in {"err", "panic"} /\ trail = <<>>) => pc = "err"

----------------------------------------------------------------------------
\* Caching a file by link or copy.

\* C22: while the destination exists, no call of cache_link fails at its
\* link or at its test of the destination, and no step of a call changes the
\* content of the destination.
C22_DestinationNeverReplaced ==
    [][cl_dest # 0 - 1 =>
          /\ cl_dest' = cl_dest
          /\ \A c \in DOMAIN cl_pc :
                cl_pc[c] \in {"hard_link", "exists"} => cl_pc'[c] # "Err"]_vars

----------------------------------------------------------------------------
\* Drops of a fallible map.

\* C23: when f fails at index i the places of `out` below i are dropped
\* from the last written to the first, then the elements of the array above
\* i, each exactly once and nothing else; when every call succeeds nothing is
\* dropped.
C23_DropsOnError ==
    LET i == Len(tm_out) + 1
        n == Len(tm_me)
        Owned == {<<"out", j>> : j \in 1..(i - 1)} \cup {<<"me", j>> : j \in (i + 1)..n}
    IN /\ tm_result \in {"none", "Ok"} => tm_dropped = <<>>
       /\ tm_result = "Ok" => Len(tm_out) = n
       /\ tm_result = "Err" =>
             /\ i <= n
             /\ \A e \in Owned :
                   Cardinality({k \in DOMAIN tm_dropped : tm_dropped[k] = e}) = 1
             /\ \A k \in DOMAIN tm_dropped : tm_dropped[k] \in Owned
             /\ \A k \in 1..(i - 1) : tm_dropped[k] = <<"out", i - k>>

\* f failed at the third of three elements, after two values were written
C23_Witness ==
    /\ tm_result = "Err"
    /\ Len(tm_me) = 3
    /\ Len(tm_out) = 2
    /\ Len(tm_dropped) = 2

----------------------------------------------------------------------------
\* Mutual exclusion by a lock file.

\* C24: at most one guard is held for the path, the lock file of a held
\* guard exists and is the one its holder created, and a release never removes
\* a lock file that another holder created.
C24_AtMostOneGuard ==
    /\ Cardinality({c \in DOMAIN lk_pc : lk_pc[c] = "held"}) <= 1
    /\ \A c \in DOMAIN lk_pc : lk_pc[c] = "held" => lk_file = c

----------------------------------------------------------------------------
\* The tree of a group.

\* C25: when of_spacegroup has returned, every decomposition
\* decomps[i] = (a, b) of its tree has b <= a < i
\* and members[i] = of(members[a], members[b]), and the homomorphism computed
\* with the identity and the group product is the list of the members, in the
\* order given.
C25_TreeDecomposesIntoEarlierMembers ==
    sg_pc = "returned" =>
       /\ \A i \in DOMAIN sg_ops :
             LET ab == Decomp(sg_ops, i) IN
             ab # <<>> =>
                /\ ab[2] <= ab[1]
                /\ ab[1] < i
                /\ sg_ops[i] = Mul(sg_ops[ab[1]], sg_ops[ab[2]])
       /\ ComputeHomomorphism(sg_ops, Len(sg_ops)) = sg_ops

\* the permutations were computed for a group of six operations whose last
\* member has a decomposition
C25_Witness ==
    /\ sg_pc = "returned"
    /\ Len(sg_ops) = 6
    /\ Decomp(sg_ops, 6) # <<>>

----------------------------------------------------------------------------
\* The elements of a generated group.

\* the group the generators generate: the least set that holds them and is
\* closed under the sum
GgGenerated ==
    LET U == IF gg_mod > 0 THEN 0..(gg_mod - 1) ELSE {0}
        m == IF gg_mod > 0 THEN gg_mod ELSE 1
        Closed(H) == /\ \A i \in DOMAIN gg_generators : gg_generators[i] \in H
                     /\ \A x, y \in H : (x + y) % m \in H
    IN {x \in U : \A H \in SUBSET U : Closed(H) => x \in H}

\* C26: for generators of a finite group the list has no element twice
\* and only elements of the generated group, the search never stops before it
\* returns, and the list returned has every element of the generated group; it
\* begins with the generators in the order given, each at its first
\* occurrence.
C26_EveryElementOnce ==
    GgCloses =>
       /\ \A i, j \in DOMAIN gg_out : gg_out[i] = gg_out[j] => i = j
       /\ \A i \in DOMAIN gg_out : gg_out[i] \in GgGenerated
       /\ gg_pc = "loop" => ENABLED GgNext
       /\ gg_pc = "returned" =>
             /\ {gg_out[i] : i \in DOMAIN gg_out} = GgGenerated
             /\ \A i \in DOMAIN gg_generators :
                   (\A j \in 1..(i - 1) : gg_generators[j] # gg_generators[i]) =>
                      gg_out[Cardinality({gg_generators[j] : j \in 1..i})] = gg_generators[i]

\* the cyclic group of four elements was generated from a list that has one
\* generator twice
C26_Witness ==
    /\ gg_pc = "returned"
    /\ Len(gg_out) = 4
    /\ Len(gg_generators) = 2
    /\ gg_generators[1] = gg_generators[2]

----------------------------------------------------------------------------
\* The permutation between two arrangements of the same positions.

\* the distance of two coordinates modulo the lattice
RoDistance(a, b) ==
    LET d == (a - b) % ro_lattice
    IN IF 2 * d > ro_lattice THEN ro_lattice - d ELSE d

\* all positions of `from_fracs` are pairwise farther apart than tol
RoSeparated ==
    \A i, j \in DOMAIN ro_from :
        i # j => 2 * RoDistance(ro_from[i], ro_from[j]) > ro_tol

\* to_fracs is from_fracs reordered by p
RoReorderedBy(p) ==
    /\ DOMAIN p = DOMAIN ro_from
    /\ \A i \in DOMAIN p : p[i] \in DOMAIN ro_from
    /\ \A i, j \in DOMAIN p : p[i] = p[j] => i = j
    /\ ro_to = PermutedBy(ro_from, p)

\* what C27 says of a result, apart from the permutation it is: an Ok result
\* is a bijection, search_start stays inside the array, and the final check
\* does not fail
RoResultSound ==
    /\ ro_result.kind = "Ok" =>
          /\ DOMAIN ro_result.perm = DOMAIN ro_from
          /\ \A i \in DOMAIN ro_from : \E j \in DOMAIN ro_from : ro_result.perm[j] = i
    /\ ro_result.kind # "panic: index out of bounds"
    /\ ro_result.kind # "Err: multiple positions mapped to the same index"

----------------------------------------------------------------------------
\* The number of iterations.

\* C28: for max_iter >= 1 and min_positive_iter >= 1 step has been called
\* at most max_iter + min_positive_iter - 1 times, and fewer times than that
\* while its last status is KeepGoing: the loop begins no iteration after that
\* many.
C28_TerminalWithinBound ==
    (config.max_iter >= 1 /\ config.min_positive_iter >= 1) =>
       /\ nsteps <= config.max_iter + config.min_positive_iter - 1
       /\ status = "KeepGoing" =>
             nsteps < config.max_iter + config.min_positive_iter - 1

\* the bound is reached: step returned Done at call max_iter +
\* min_positive_iter - 1, after chasing and clean iterations
C28_Witness ==
    /\ config.max_iter >= 2
    /\ config.min_positive_iter >= 2
    /\ nsteps = config.max_iter + config.min_positive_iter - 1
    /\ status = "Done"
    /\ ~all_chased

----------------------------------------------------------------------------
\* C29: log_stdio_and_wait called with a stdin text cannot deadlock: while
\* the call has not returned, the driver, the child or a worker can take a
\* step, whatever the capacity of the pipes; and the driver waits for the
\* child only after the whole text has been written to the child's stdin.
C29_CannotDeadlock ==
    pd_stdin.some =>
        /\ pd_pc \notin {"idle", "returned"} => ENABLED PdNext
        /\ pd_pc \in {"stdout_worker", "stderr_worker", "wait",
                      "join_stdout", "join_stderr"}
              => pd_sent = pd_stdin.len

----------------------------------------------------------------------------
\* C30: exact_ls::linesearch is total: for every start, every initial_step
\* (positive, zero or negative) and every callback that returns finite
\* slopes, no assertion of find_initial or bisect fails, and every turn of
\* the bracketing loop of find_initial moves the endpoint b, so that the loop
\* ends after finitely many callback calls.
C30_Total ==
    [][(\A x \in DOMAIN ls_evals' : ls_evals'[x].kind = "slope")
          => /\ ls_result'.kind # "panic"
             /\ ls_pc = "find_initial" /\ ls_pc' = "find_initial"
                   => ls_b' # ls_b]_vars

====
